---- MODULE Spec2Model ----
(***************************************************************************)
(* Model of the Trend-to-Product pipeline (src/main.py) with its run       *)
(* ledger (src/storage/recorder.py), project writer                        *)
(* (src/tools/file_writer.py) and the free-text JSON extractor             *)
(* (_parse_json, which drives json.JSONDecoder.raw_decode).                *)
(*                                                                         *)
(* Texts are sequences of one-character strings.  Python indexes from 0,   *)
(* the model from 1: Find returns 0 where str.find returns -1.             *)
(* A character that TLA+ cannot write in a string has a name: BQ for the   *)
(* backquote, the JSON escape for a control or non-ASCII character.        *)
(***************************************************************************)
EXTENDS Integers, Sequences, FiniteSets, TLC

\* ------------------------------------------------------------------------
\* Bounds of the model
\* ------------------------------------------------------------------------
\* longest enumerated text handed to the extractor
MaxLen == 4

\* the backquote character of a markdown fence
BQ == "BQ"

\* ------------------------------------------------------------------------
\* JSON values as Python objects.  One record shape for every value:
\*   k  kind: "None" | "bool" | "int" | "float" | "str" | "list" | "dict"
\*   s  the characters of a str; for a float that is not written with
\*      digits alone (-0.0, nan, inf, -inf) the text json.dumps writes for it
\*   i  the number of an int, 1 / 0 for True / False; for a float the
\*      numerator of  i / 10^d
\*   d  the number of decimals of a float, 0 for an integral one
\*   e  the elements of a list, the values of a dict (insertion order)
\*   n  the keys of a dict (insertion order)
\* ------------------------------------------------------------------------
None == [k |-> "None", s |-> <<>>, i |-> 0, d |-> 0, e |-> <<>>, n |-> <<>>]

PyBool(b) ==
    [k |-> "bool", s |-> <<>>, i |-> IF b THEN 1 ELSE 0, d |-> 0, e |-> <<>>, n |-> <<>>]

PyInt(v) == [k |-> "int", s |-> <<>>, i |-> v, d |-> 0, e |-> <<>>, n |-> <<>>]

PyFloat(m, d) == [k |-> "float", s |-> <<>>, i |-> m, d |-> d, e |-> <<>>, n |-> <<>>]

\* float("-0.0"), float("nan"), float("inf"), float("-inf")
NegZero ==
    [k |-> "float", s |-> <<"-", "0", ".", "0">>, i |-> 0, d |-> 0, e |-> <<>>, n |-> <<>>]

NaN == [k |-> "float", s |-> <<"N", "a", "N">>, i |-> 1, d |-> 0, e |-> <<>>, n |-> <<>>]

Infinity ==
    [k |-> "float", s |-> <<"I", "n", "f", "i", "n", "i", "t", "y">>, i |-> 1, d |-> 0,
     e |-> <<>>, n |-> <<>>]

NegInfinity ==
    [k |-> "float", s |-> <<"-", "I", "n", "f", "i", "n", "i", "t", "y">>, i |-> 0 - 1,
     d |-> 0, e |-> <<>>, n |-> <<>>]

PyStr(cs) == [k |-> "str", s |-> cs, i |-> 0, d |-> 0, e |-> <<>>, n |-> <<>>]

PyList(es) == [k |-> "list", s |-> <<>>, i |-> 0, d |-> 0, e |-> es, n |-> <<>>]

PyDict(ks, vs) == [k |-> "dict", s |-> <<>>, i |-> 0, d |-> 0, e |-> vs, n |-> ks]

\* One character of a key as the text of the key shows it.  A str literal of
\* the source is written as one element (Lit) and a decoded key character by
\* character: both show the same text.  A backslash and a backquote are
\* written so that no two different strs show the same text.
KeyChar(c) == IF c = "\\" THEN "\\\\" ELSE IF c = BQ THEN "\\q" ELSE c

RECURSIVE KeyText(_)
\* the text of the str s, put together by halves
KeyText(s) ==
    IF s = <<>> THEN ""
    ELSE IF Len(s) = 1 THEN KeyChar(s[1])
    ELSE KeyText(SubSeq(s, 1, Len(s) \div 2)) \o KeyText(SubSeq(s, (Len(s) \div 2) + 1, Len(s)))

\* a == b for two str keys
SameStr(a, b) == KeyText(a) = KeyText(b)

\* the position of key among the keys of d, 0 when d has no such key
KeyIndex(d, key) ==
    IF \E j \in 1..Len(d.n) : SameStr(d.n[j], key)
    THEN CHOOSE j \in 1..Len(d.n) : SameStr(d.n[j], key)
    ELSE 0

\* dict(pairs): a repeated key keeps its first position and takes the last value
DictPut(d, key, val) ==
    IF KeyIndex(d, key) # 0
    THEN PyDict(d.n, [d.e EXCEPT ![KeyIndex(d, key)] = val])
    ELSE PyDict(Append(d.n, key), Append(d.e, val))

\* key in d
HasKey(d, key) == d.k = "dict" /\ KeyIndex(d, key) # 0

\* d.get(key): None when the key is absent
DictGet(d, key) == IF HasKey(d, key) THEN d.e[KeyIndex(d, key)] ELSE None

\* bool(v) of Python
Truthy(v) ==
    CASE v.k = "None" -> FALSE
      [] v.k \in {"bool", "int", "float"} -> v.i # 0
      [] v.k = "str" -> v.s # <<>>
      [] v.k = "list" -> v.e # <<>>
      [] v.k = "dict" -> v.n # <<>>
      [] OTHER -> TRUE

\* ------------------------------------------------------------------------
\* json.JSONDecoder.raw_decode, as _parse_json drives it.  Characters are
\* the printable ASCII characters, "\t", "\n", "\f", "\r" and named ones:
\* BQ for the backquote, "\\b" for the backspace and "\\uxxxx" for any other
\* code point (as json.dumps writes it).  Numbers stay below 2^31.
\* ------------------------------------------------------------------------
WS == {" ", "\n", "\t", "\r"}

Digits == {"0", "1", "2", "3", "4", "5", "6", "7", "8", "9"}

DigitVal(c) ==
    CASE c = "0" -> 0 [] c = "1" -> 1 [] c = "2" -> 2 [] c = "3" -> 3
      [] c = "4" -> 4 [] c = "5" -> 5 [] c = "6" -> 6 [] c = "7" -> 7
      [] c = "8" -> 8 [] c = "9" -> 9

\* the value of a hexadecimal digit, -1 for any other character
HexVal(c) ==
    CASE c \in Digits -> DigitVal(c)
      [] c \in {"a", "A"} -> 10 [] c \in {"b", "B"} -> 11 [] c \in {"c", "C"} -> 12
      [] c \in {"d", "D"} -> 13 [] c \in {"e", "E"} -> 14 [] c \in {"f", "F"} -> 15
      [] OTHER -> -1

HexDigits ==
    <<"0", "1", "2", "3", "4", "5", "6", "7", "8", "9", "a", "b", "c", "d", "e", "f">>

\* the characters of code points 32..126
Ascii ==
    <<" ", "!", "\"", "#", "$", "%", "&", "'", "(", ")", "*", "+", ",", "-", ".", "/",
      "0", "1", "2", "3", "4", "5", "6", "7", "8", "9", ":", ";", "<", "=", ">", "?",
      "@", "A", "B", "C", "D", "E", "F", "G", "H", "I", "J", "K", "L", "M", "N", "O",
      "P", "Q", "R", "S", "T", "U", "V", "W", "X", "Y", "Z", "[", "\\", "]", "^", "_",
      BQ, "a", "b", "c", "d", "e", "f", "g", "h", "i", "j", "k", "l", "m", "n", "o",
      "p", "q", "r", "s", "t", "u", "v", "w", "x", "y", "z", "{", "|", "}", "~">>

\* the name of code point n as json.dumps escapes it
UName(n) ==
    "\\u" \o HexDigits[(n \div 4096) + 1] \o HexDigits[((n \div 256) % 16) + 1]
          \o HexDigits[((n \div 16) % 16) + 1] \o HexDigits[(n % 16) + 1]

\* chr(n)
Chr(n) ==
    CASE n \in 32..126 -> Ascii[n - 31]
      [] n = 8 -> "\\b" [] n = 9 -> "\t" [] n = 10 -> "\n"
      [] n = 12 -> "\f" [] n = 13 -> "\r"
      [] OTHER -> UName(n)

\* the characters below U+0020, which a strict decoder refuses inside a string
ControlChars == {"\n", "\t", "\r", "\f", "\\b"} \cup {UName(n) : n \in 0..31}

\* s[i:i+1]: the character at i, or "" past the end
At(s, i) == IF i \in 1..Len(s) THEN s[i] ELSE ""

\* s[i:i+Len(w)] == w
StartsWith(s, i, w) ==
    /\ i + Len(w) - 1 <= Len(s)
    /\ \A j \in 1..Len(w) : s[i + j - 1] = w[j]

RECURSIVE SkipWs(_, _)
\* WHITESPACE.match(s, i).end()
SkipWs(s, i) == IF At(s, i) \in WS THEN SkipWs(s, i + 1) ELSE i

RECURSIVE DigitsEnd(_, _)
\* the position after the run of digits that starts at i
DigitsEnd(s, i) == IF At(s, i) \in Digits THEN DigitsEnd(s, i + 1) ELSE i

RECURSIVE DigitsValue(_, _, _)
\* the decimal number written at positions i..j-1
DigitsValue(s, i, j) ==
    IF i >= j THEN 0 ELSE DigitsValue(s, i, j - 1) * 10 + DigitVal(s[j - 1])

RECURSIVE Pow10(_)
Pow10(n) == IF n = 0 THEN 1 ELSE 10 * Pow10(n - 1)

\* A decoding step's outcome: ok, the value and the position after it; when
\* not ok the exception raised, the head of its message and the position
\* the message names (end).
Fail(msg, pos) ==
    [ok |-> FALSE, val |-> None, end |-> pos, err |-> "JSONDecodeError", msg |-> msg]

Ok(v, e) == [ok |-> TRUE, val |-> v, end |-> e, err |-> "", msg |-> <<>>]

\* raise StopIteration(idx): no value starts at idx
StopIteration(idx) ==
    [ok |-> FALSE, val |-> None, end |-> idx, err |-> "StopIteration", msg |-> <<>>]

\* sys.getrecursionlimit(): the interpreter's default, which the program
\* never changes
RecursionLimit == 1000

\* RecursionError, where names what the interpreter was doing
RecursionError(where) ==
    [ok |-> FALSE, val |-> None, end |-> 0, err |-> "RecursionError",
     msg |-> <<"maximum recursion depth exceeded" \o where>>]

\* the scanner may not enter one more array or object
TooDeep(what) ==
    RecursionError(" while decoding a JSON " \o what \o " from a unicode string")

\* raise JSONDecodeError(msg, s, pos) where the recursion limit allows avail
\* more nested calls.  Building the exception takes three: the call of the
\* class, the frame of its __init__, the call of ValueError.__init__.
DecodeError(msg, pos, avail) ==
    IF avail >= 3 THEN Fail(msg, pos)
    ELSE RecursionError(IF avail = 1 THEN "" ELSE " while calling a Python object")

\* ------------------------------------------------------------------------
\* float(text).  A float of the model is the double nearest to the number its
\* digits write, kept as the shortest digits that name it (what repr shows):
\*   i / 10^d, with d < 0 for a whole number of 2^31 or more.
\* Numbers beyond 2^31 are sequences of limbs in base 10^4, the least
\* significant first.
\* ------------------------------------------------------------------------
\* 2^1074: the doubles below 2^-1022 are the multiples of 2^-1074
TwoTo1074 ==
    <<4784, 9349, 7410, 7707, 6330, 62, 8646, 2750, 1863, 2532, 3050, 6152, 3414, 5233,
      7695, 2358, 5651, 8100, 6340, 5955, 6491, 3355, 1810, 6986, 4692, 8342, 74, 8562,
      4506, 4727, 7678, 3976, 3412, 3216, 4209, 9077, 4466, 6136, 5663, 4276, 1742, 9215,
      8509, 4073, 3999, 7013, 7686, 7934, 7385, 873, 3898, 1911, 1681, 8643, 7077, 9518,
      1244, 1437, 8370, 9603, 6891, 9534, 5679, 339, 2743, 3580, 6901, 1835, 1421, 9764,
      5664, 495, 7307, 1891, 3467, 2495, 1835, 3106, 3307, 225, 2024>>

\* 5^1075: 2^-1075, half a step between those doubles, is 5^1075 / 10^1075
FiveTo1075 ==
    <<8125, 3632, 6672, 1327, 9859, 5320, 3412, 3769, 1454, 2826, 3772, 2138, 1396, 8545,
      5131, 1028, 582, 497, 8324, 9496, 6679, 6948, 7918, 2547, 836, 1369, 1893, 7255,
      5550, 5244, 5657, 5599, 3027, 5628, 8792, 3885, 9863, 3508, 6682, 8497, 7234, 186,
      3891, 8042, 3732, 6239, 7963, 8818, 3653, 1262, 5249, 6239, 9164, 3865, 1711, 6539,
      487, 849, 5753, 5300, 300, 9184, 4672, 1914, 8046, 1596, 4162, 7860, 7666, 4223,
      6113, 5166, 7458, 3553, 3405, 8951, 96, 6736, 6324, 4017, 5067, 577, 6193, 9677,
      9007, 3633, 4507, 7393, 3785, 2262, 8166, 2082, 4540, 9470, 9659, 9770, 5499, 648,
      3740, 56, 2722, 2728, 6465, 2276, 5746, 3579, 9726, 2465, 5531, 7801, 3519, 8409,
      3433, 9278, 1332, 5855, 2795, 1928, 631, 9037, 9269, 8576, 15, 757, 5848, 8636,
      3669, 6562, 2193, 8249, 5767, 3704, 319, 5250, 5361, 9936, 284, 9318, 4435, 518,
      4491, 8392, 9085, 3922, 226, 1557, 6595, 5035, 631, 939, 539, 3980, 9387, 9819,
      9698, 5177, 2835, 4633, 8865, 2285, 3477, 8282, 8989, 9961, 817, 1818, 6499, 5932,
      437, 6351, 7753, 5033, 8412, 2792, 8221, 1623, 1307, 2990, 1825, 686, 3411, 3964,
      8284, 7208, 6232, 2920, 3282, 2470>>

\* the limb at j of a, 0 past its end
LimbAt(a, j) == IF j \in 1..Len(a) THEN a[j] ELSE 0

\* the decimal digit of a at position p, 0 being the units
Dig(a, p) == (LimbAt(a, (p \div 4) + 1) \div Pow10(p % 4)) % 10

RECURSIVE Carried(_, _, _, _)
\* the limbs lo..hi of the column sums cols with c carried in, then the
\* carry out as the last element
Carried(cols, lo, hi, c) ==
    IF lo > hi THEN <<c>>
    ELSE <<(cols[lo] + c) % 10000>> \o Carried(cols, lo + 1, hi, (cols[lo] + c) \div 10000)

RECURSIVE CarryBlocks(_, _, _)
\* the limbs of the column sums cols from position lo on, sixteen at a time
CarryBlocks(cols, lo, c) ==
    LET hi == IF lo + 15 < Len(cols) THEN lo + 15 ELSE Len(cols)
        Next(b) == SubSeq(b, 1, Len(b) - 1) \o CarryBlocks(cols, hi + 1, b[Len(b)])
    IN  IF lo > Len(cols) THEN <<>> ELSE Next(Carried(cols, lo, hi, c))

\* the limbs of the sums or differences cols, wide enough to end the carries
Limbs(cols) == CarryBlocks(cols, 1, 0)

RECURSIVE ColumnSum(_, _, _, _)
\* the sum of a[j - i + 1] * b[i] over the limbs i.. of b
ColumnSum(a, b, j, i) ==
    IF i > Len(b) THEN 0 ELSE LimbAt(a, j - i + 1) * b[i] + ColumnSum(a, b, j, i + 1)

\* a * b, b of at most twenty limbs
Times(a, b) == Limbs([j \in 1..(Len(a) + Len(b)) |-> ColumnSum(a, b, j, 1)])

\* a + sign * b, never negative
Plus(a, sign, b) == Limbs([j \in 1..(Len(a) + 1) |-> LimbAt(a, j) + sign * LimbAt(b, j)])

RECURSIVE LimbOf(_, _, _)
\* the limb made of the decimal digits q .. q + 3 - t of n
LimbOf(n, q, t) == IF t > 3 THEN 0 ELSE Dig(n, q + t) * Pow10(t) + LimbOf(n, q, t + 1)

\* n / 10^q rounded to the nearest whole number, a tie to the even one
Rounded(n, q) ==
    LET first == IF q >= 1 THEN Dig(n, q - 1) ELSE 0
        last == IF q - 2 < 4 * Len(n) THEN q - 2 ELSE 4 * Len(n)
        rest == \E p \in 0..last : Dig(n, p) # 0
        up == first > 5 \/ (first = 5 /\ (rest \/ Dig(n, q) % 2 = 1))
    IN  Limbs([j \in 1..6 |->
                  LimbOf(n, q + 4 * (j - 1), 0) + (IF j = 1 /\ up THEN 1 ELSE 0)])

RECURSIVE DigitsNumber(_, _, _, _)
\* the number written by the digits of c at positions p..top
DigitsNumber(c, p, top, j) ==
    IF j > top THEN 0 ELSE Dig(c, j) * Pow10(j - p) + DigitsNumber(c, p, top, j + 1)

\* the highest position of a that holds a digit other than 0
TopDigit(a) ==
    CHOOSE p \in 0..(4 * Len(a) - 1) :
        Dig(a, p) # 0 /\ \A h \in (p + 1)..(4 * Len(a) - 1) : Dig(a, h) = 0

\* a < b
Below(a, b) ==
    \E j \in 1..Len(b) :
        LimbAt(a, j) < b[j] /\ \A h \in (j + 1)..Len(b) : LimbAt(a, h) = b[h]

\* a with the decimal digits below position p set to 0
CutAt(a, p) ==
    [j \in 1..Len(a) |->
        IF 4 * j <= p THEN 0
        ELSE IF 4 * (j - 1) >= p THEN a[j]
        ELSE a[j] - (a[j] % Pow10(p % 4))]

\* 10^p
TenTo(p, len) == [j \in 1..len |-> IF j = (p \div 4) + 1 THEN Pow10(p % 4) ELSE 0]

\* c is read as the double whose neighbours are half a step away at lo and
\* hi: strictly between them, or at one of them when the double is even
ReadAs(c, lo, hi, closed) ==
    IF closed THEN ~Below(c, lo) /\ ~Below(hi, c) ELSE Below(lo, c) /\ Below(c, hi)

\* the multiple of 10^p next above a
NextAbove(a, p) == Plus(CutAt(a, p), 1, TenTo(p, Len(a)))

\* a number that ends at decimal position p names the double at mid
ReadAsAt(mid, lo, hi, closed, p) ==
    ReadAs(CutAt(mid, p), lo, hi, closed) \/ ReadAs(NextAbove(mid, p), lo, hi, closed)

\* the highest decimal position at which a number that names the double
\* ends: the fewest digits
ShortestEnd(mid, lo, hi, closed, top) ==
    CHOOSE p \in (IF top > 17 THEN top - 17 ELSE 0)..top :
        /\ ReadAsAt(mid, lo, hi, closed, p)
        /\ \A h \in (p + 1)..top : ~ReadAsAt(mid, lo, hi, closed, h)

\* mid is nearer to the multiple of 10^p above it than to the one below, a
\* tie going to the even digit
NearerAbove(mid, p) ==
    \/ p > 0 /\ Dig(mid, p - 1) > 5
    \/ /\ p > 0 /\ Dig(mid, p - 1) = 5
       /\ (\E h \in 0..(p - 2) : Dig(mid, h) # 0) \/ Dig(mid, p) % 2 = 1

\* of the numbers down and up that end at one position, the one that names
\* the double, the nearest to it when both do
NearestOf(down, up, lo, hi, closed, above) ==
    IF ~ReadAs(up, lo, hi, closed) THEN down
    ELSE IF ~ReadAs(down, lo, hi, closed) THEN up
    ELSE IF above THEN up ELSE down

NearestAt(mid, lo, hi, closed, p) ==
    NearestOf(CutAt(mid, p), NextAbove(mid, p), lo, hi, closed, NearerAbove(mid, p))

\* the float written by the digits of c from position p up, c in units of
\* 10^-1075
FloatAt(neg, c, p) ==
    PyFloat((IF neg THEN 0 - 1 ELSE 1) * DigitsNumber(c, p, TopDigit(c), p), 1075 - p)

ShortestAt(neg, mid, lo, hi, closed, p) == FloatAt(neg, NearestAt(mid, lo, hi, closed, p), p)

\* the shortest digits that are read as the double at mid, its neighbours
\* half a step away at lo and hi
Between(neg, mid, lo, hi, closed) ==
    ShortestAt(neg, mid, lo, hi, closed, ShortestEnd(mid, lo, hi, closed, TopDigit(hi)))

Around(neg, mid, closed) ==
    Between(neg, mid, Plus(mid, 0 - 1, FiveTo1075), Plus(mid, 1, FiveTo1075), closed)

\* The shortest digits that name the double k * 2^-1074, k > 0 in limbs:
\* what repr writes.  In units of 10^-1075 the double is mid = 2 * k * 5^1075
\* and the numbers read as it lie between mid - 5^1075 and mid + 5^1075, the
\* ends included when k is even.
ShortestDigits(neg, k) == Around(neg, Times(FiveTo1075, Plus(k, 1, k)), k[1] % 2 = 0)

\* the double k * 2^-1074 nearest to a number below 2^-1022, k in limbs
Nearest(neg, k) ==
    IF \A j \in 1..Len(k) : k[j] = 0
    THEN (IF neg THEN NegZero ELSE PyFloat(0, 0))
    ELSE ShortestDigits(neg, k)

\* the double nearest to m / 10^q, below 2^-1022: a multiple of 2^-1074
Subnormal(neg, m, q) ==
    Nearest(neg, Rounded(Times(TwoTo1074,
                               <<m % 10000, (m \div 10000) % 10000, m \div 100000000>>), q))

RECURSIVE DigitCount(_)
\* the number of digits of m
DigitCount(m) == IF m < 10 THEN 1 ELSE 1 + DigitCount(m \div 10)

RECURSIVE Normalised(_, _, _)
\* the float sign * m / 10^d of the normal range, where the digits of the
\* text without the zeros that end them are the shortest that name it
Normalised(neg, m, d) ==
    IF m % 10 = 0 THEN Normalised(neg, m \div 10, d - 1)
    ELSE IF d >= 0 THEN PyFloat(IF neg THEN 0 - m ELSE m, d)
    ELSE IF 0 - d <= 9 /\ m <= 2147483647 \div Pow10(0 - d)
    THEN PyFloat((IF neg THEN 0 - m ELSE m) * Pow10(0 - d), 0)
    ELSE PyFloat(IF neg THEN 0 - m ELSE m, d)

\* float(text) of the number  sign * m * 10^x: the nearest double.  lead is
\* the first nine digits of m; the largest double is 1.7976931348623157e308
\* and a number from 1.797693134862315807e308 on is read as inf; the
\* smallest normal double, 2^-1022, is 2.2250738585072014e-308.
MakeFloat(neg, m, x) ==
    LET nd == DigitCount(m)
        exp10 == x + nd - 1
        lead == IF nd <= 9 THEN m * Pow10(9 - nd) ELSE m \div 10
        huge == \/ exp10 > 308
                \/ exp10 = 308 /\ lead > 179769313
                \/ exp10 = 308 /\ lead = 179769313 /\ nd = 10 /\ m % 10 >= 5
        tiny == exp10 < 0 - 308 \/ (exp10 = 0 - 308 /\ lead <= 222507385)
    IN  IF m = 0 THEN (IF neg THEN NegZero ELSE PyFloat(0, 0))
        ELSE IF huge THEN (IF neg THEN NegInfinity ELSE Infinity)
        ELSE IF tiny THEN Subnormal(neg, m, 0 - x)
        ELSE Normalised(neg, m, 0 - x)

\* int(integer) without fraction and exponent, else float(integer + frac + exp)
\* of the groups NUMBER_RE matched at i: a is the position after the sign, ie,
\* fe and ee the positions after integer, frac and exp (a group that does not
\* match ends where it starts), sg the position of the exponent's digits
Groups(s, i, a, ie, fe, sg, ee) ==
    LET neg == At(s, i) = "-"
        hasFrac == fe # ie
        hasExp == ee # fe
        iv == DigitsValue(s, a, ie)
        fracLen == IF hasFrac THEN fe - ie - 1 ELSE 0
        m == IF hasFrac THEN iv * Pow10(fracLen) + DigitsValue(s, ie + 1, fe)
             ELSE iv
        ev == IF hasExp THEN DigitsValue(s, sg, ee) ELSE 0
        x == (IF At(s, fe + 1) = "-" THEN 0 - ev ELSE ev) - fracLen
    IN  IF At(s, a) \notin Digits THEN StopIteration(i)
        ELSE IF ~hasFrac /\ ~hasExp
        THEN Ok(PyInt(IF neg THEN 0 - iv ELSE iv), ie)
        ELSE Ok(MakeFloat(neg, m, x), ee)

\* the exp group ([eE][-+]?[0-9]+)? at fe, its digits at sg
ExpGroup(s, i, a, ie, fe, sg) ==
    Groups(s, i, a, ie, fe, sg,
           IF At(s, fe) \in {"e", "E"} /\ At(s, sg) \in Digits THEN DigitsEnd(s, sg) ELSE fe)

\* after the frac group, which ends at fe: the sign of an exponent
FracGroup(s, i, a, ie, fe) ==
    ExpGroup(s, i, a, ie, fe, IF At(s, fe + 1) \in {"-", "+"} THEN fe + 2 ELSE fe + 1)

\* after the integer group, which ends at ie: the frac group (\.[0-9]+)?
IntegerGroup(s, i, a, ie) ==
    FracGroup(s, i, a, ie,
              IF At(s, ie) = "." /\ At(s, ie + 1) \in Digits THEN DigitsEnd(s, ie + 1) ELSE ie)

\* after the sign: the integer group (?:0|[1-9][0-9]*)
AfterSign(s, i, a) ==
    IntegerGroup(s, i, a, IF At(s, a) = "0" THEN a + 1 ELSE DigitsEnd(s, a))

\* NUMBER_RE = (-?(?:0|[1-9][0-9]*))(\.[0-9]+)?([eE][-+]?[0-9]+)?  at i, the
\* groups found from left to right
MatchNumber(s, i) == AfterSign(s, i, IF At(s, i) = "-" THEN i + 1 ELSE i)

\* the four hexadecimal digits at i..i+3
IsHex4(s, i) == \A j \in 0..3 : HexVal(At(s, i + j)) >= 0

Hex4(s, i) ==
    HexVal(s[i]) * 4096 + HexVal(s[i + 1]) * 256 + HexVal(s[i + 2]) * 16 + HexVal(s[i + 3])

\* BACKSLASH: the character an escape letter stands for
Unescape(c) ==
    CASE c = "\"" -> "\"" [] c = "\\" -> "\\" [] c = "/" -> "/"
      [] c = "b" -> "\\b" [] c = "f" -> "\f" [] c = "n" -> "\n"
      [] c = "r" -> "\r" [] c = "t" -> "\t"

RECURSIVE ScanString(_, _, _, _, _)
\* scanstring(s, end, strict=True): begin is the position of the opening
\* quote, i the position reached, acc the characters decoded so far.  A
\* \uXXXX escape is read only when a character follows its four digits, a
\* second one is joined to it only when a character follows that one too.
\* room is the number of nested calls the recursion limit still allows.
ScanString(s, begin, i, acc, room) ==
    LET c == At(s, i)
        esc == At(s, i + 1)
    IN  IF c = "" THEN DecodeError(<<"Unterminated string starting at">>, begin, room)
        ELSE IF c = "\"" THEN Ok(PyStr(acc), i + 1)
        ELSE IF c \in ControlChars THEN DecodeError(<<"Invalid control character at">>, i, room)
        ELSE IF c # "\\" THEN ScanString(s, begin, i + 1, Append(acc, c), room)
        ELSE IF esc = "" THEN DecodeError(<<"Unterminated string starting at">>, begin, room)
        ELSE IF esc = "u"
        THEN IF i + 5 >= Len(s) \/ ~IsHex4(s, i + 2)
             THEN DecodeError(<<"Invalid ", "\\", "uXXXX escape">>, i + 1, room)
             ELSE IF /\ Hex4(s, i + 2) \in 55296..56319
                     /\ i + 11 < Len(s)
                     /\ At(s, i + 6) = "\\" /\ At(s, i + 7) = "u"
                     /\ IsHex4(s, i + 8)
                     /\ Hex4(s, i + 8) \in 56320..57343
             THEN ScanString(s, begin, i + 12,
                             Append(acc, UName(Hex4(s, i + 2)) \o UName(Hex4(s, i + 8))),
                             room)
             ELSE ScanString(s, begin, i + 6, Append(acc, Chr(Hex4(s, i + 2))), room)
        ELSE IF esc \in {"\"", "\\", "/", "b", "f", "n", "r", "t"}
        THEN ScanString(s, begin, i + 2, Append(acc, Unescape(esc)), room)
        ELSE DecodeError(<<"Invalid ", "\\", "escape">>, i, room)

RECURSIVE ScanOnce(_, _, _)
RECURSIVE ArrayItems(_, _, _, _)
RECURSIVE Enclosing(_, _, _, _)
RECURSIVE ObjectPairs(_, _, _, _)

\* The scanner calls itself for every value of an array or object.  room is
\* the number of nested calls the recursion limit still allows: the arrays
\* and objects the scanner may still enter, one inside the other.

\* JSONArray: i is the position after "["
JSONArray(s, i, room) ==
    LET j == SkipWs(s, i)
    IN  IF At(s, j) = "]" THEN Ok(PyList(<<>>), j + 1)
        ELSE ArrayItems(s, j, <<>>, room)

\* the while loop of JSONArray after a value: "]", or "," and the next value
AfterItem(s, j, vs, room) ==
    IF At(s, j) = "]" THEN Ok(PyList(vs), j + 1)
    ELSE IF At(s, j) = "," THEN ArrayItems(s, SkipWs(s, j + 1), vs, room)
    ELSE DecodeError(<<"Expecting ',' delimiter">>, j, room)

\* the while loop of JSONArray: i is the position of the next value
ArrayItems(s, i, acc, room) ==
    LET Scanned(r) ==
            IF ~r.ok THEN r ELSE AfterItem(s, SkipWs(s, r.end), Append(acc, r.val), room)
    IN  Scanned(ScanOnce(s, i, room))

\* the number of "[" that follow one another from position i on
ArrayRun(s, i) ==
    LET others == {j \in i..Len(s) : s[j] # "["}
    IN  IF others = {} THEN Len(s) + 1 - i
        ELSE (CHOOSE j \in others : \A h \in others : j <= h) - i

\* The arrays around the innermost one of a run of "[", from the inside
\* out: r is what the array inside returned, the first value of the array
\* that goes on; levels counts the arrays still open, room is that of the
\* next one.  None of them handles a failure of the array inside it.
Enclosing(s, r, levels, room) ==
    IF ~r.ok \/ levels = 0 THEN r
    ELSE Enclosing(s, AfterItem(s, SkipWs(s, r.end), <<r.val>>, room), levels - 1,
                   room + 1)

\* scan_once at a "[": the scanner enters every array of the run that opens
\* here before it reads anything else, and raises when the run is longer
\* than its room
OpenArray(s, i, room) ==
    LET n == ArrayRun(s, i)
    IN  IF n > room THEN TooDeep("array")
        ELSE Enclosing(s, JSONArray(s, i + n, room - n), n - 1, room - n + 1)

\* JSONObject: i is the position after "{"
JSONObject(s, i, room) ==
    LET j == SkipWs(s, i)
    IN  IF At(s, j) = "}" THEN Ok(PyDict(<<>>, <<>>), j + 1)
        ELSE ObjectPairs(s, j, PyDict(<<>>, <<>>), room)

\* the while loop of JSONObject: i is the position where a key must open
ObjectPairs(s, i, acc, room) ==
    LET AfterValue(j, d) ==
            IF At(s, j) = "}" THEN Ok(d, j + 1)
            ELSE IF At(s, j) = "," THEN ObjectPairs(s, SkipWs(s, j + 1), d, room)
            ELSE DecodeError(<<"Expecting ',' delimiter">>, j, room)
        Scanned(key, r) ==
            IF ~r.ok THEN r
            ELSE AfterValue(SkipWs(s, r.end), DictPut(acc, key.val.s, r.val))
        AfterKey(key, c) ==
            IF At(s, c) # ":" THEN DecodeError(<<"Expecting ':' delimiter">>, c, room)
            ELSE Scanned(key, ScanOnce(s, SkipWs(s, c + 1), room))
        Key(key) == IF ~key.ok THEN key ELSE AfterKey(key, SkipWs(s, key.end))
    IN  IF At(s, i) # "\""
        THEN DecodeError(<<"Expecting property name enclosed in double quotes">>, i, room)
        ELSE Key(ScanString(s, i, i + 1, <<>>, room))

\* the scanner's scan_once(s, i)
ScanOnce(s, i, room) ==
    LET c == At(s, i)
    IN  CASE c = "\"" -> ScanString(s, i, i + 1, <<>>, room)
          [] c = "{" -> IF room <= 0 THEN TooDeep("object")
                        ELSE JSONObject(s, i + 1, room - 1)
          [] c = "[" -> OpenArray(s, i, room)
          [] c = "n" /\ StartsWith(s, i, <<"n", "u", "l", "l">>) -> Ok(None, i + 4)
          [] c = "t" /\ StartsWith(s, i, <<"t", "r", "u", "e">>) -> Ok(PyBool(TRUE), i + 4)
          [] c = "f" /\ StartsWith(s, i, <<"f", "a", "l", "s", "e">>) -> Ok(PyBool(FALSE), i + 5)
          [] c = "N" /\ StartsWith(s, i, <<"N", "a", "N">>) -> Ok(NaN, i + 3)
          [] c = "I" /\ StartsWith(s, i, <<"I", "n", "f", "i", "n", "i", "t", "y">>) ->
                Ok(Infinity, i + 8)
          [] c = "-" /\ StartsWith(s, i, <<"-", "I", "n", "f", "i", "n", "i", "t", "y">>) ->
                Ok(NegInfinity, i + 9)
          [] OTHER -> MatchNumber(s, i)

\* decoder.raw_decode(text, idx), called with depth Python frames in use, few
\* enough for the call itself.  The call takes a frame, the scanner nests as
\* far as the limit allows, and its StopIteration becomes "Expecting value".
RawDecode(s, i, depth) ==
    LET room == RecursionLimit - depth - 2
        Scanned(r) ==
            IF r.err = "StopIteration"
            THEN DecodeError(<<"Expecting value">>, r.end, room + 1)
            ELSE r
    IN  Scanned(ScanOnce(s, i, room))

\* text.find(c), 0 when c does not occur
Find(s, c) ==
    LET found == {j \in 1..Len(s) : s[j] = c}
    IN  IF found = {} THEN 0 ELSE CHOOSE j \in found : \A h \in found : j <= h

\* text.find(start_char) == -1: the loop continues without decoding
Absent == [ok |-> FALSE, val |-> None, end |-> 0, err |-> "", msg |-> <<>>]

\* one pass of the loop  for start_char in ("{", "[")  of _parse_json:
\* raw_decode at the first occurrence of start_char
TryStartChar(text, start_char, depth) ==
    LET idx == Find(text, start_char)
    IN  IF idx = 0 THEN Absent ELSE RawDecode(text, idx, depth)

\* except _json.JSONDecodeError: continue
Continues(r) == ~r.ok /\ r.err \in {"", "JSONDecodeError"}

\* what a call returns: the exception that escapes it ("" for none) with
\* its message, and its value
Returns(v) == [raised |-> "", str |-> "", val |-> v]

Raises(r) == [raised |-> r.err, str |-> r.msg[1], val |-> None]

\* _parse_json(text), called with depth frames in use.  The except clause
\* names JSONDecodeError: any other exception of raw_decode escapes.
ParseJson(text, depth) ==
    LET Second(b) == IF b.ok THEN Returns(b.val)
                     ELSE IF ~Continues(b) THEN Raises(b)
                     ELSE Returns(None)
        First(a) == IF a.ok THEN Returns(a.val)
                    ELSE IF ~Continues(a) THEN Raises(a)
                    ELSE Second(TryStartChar(text, "[", depth + 1))
    IN  First(TryStartChar(text, "{", depth + 1))

\* the characters str.strip() removes: str.isspace()
PyWhitespace ==
    {" ", "\t", "\n", "\r", "\f"}
        \cup {UName(c) : c \in {11, 28, 29, 30, 31, 133, 160, 5760, 8232, 8233, 8239,
                                8287, 12288} \cup 8192..8202}

RECURSIVE LStrip(_)
LStrip(s) == IF s # <<>> /\ Head(s) \in PyWhitespace THEN LStrip(Tail(s)) ELSE s

RECURSIVE RStrip(_)
RStrip(s) ==
    IF s # <<>> /\ s[Len(s)] \in PyWhitespace THEN RStrip(SubSeq(s, 1, Len(s) - 1)) ELSE s

\* str.strip()
Strip(s) == RStrip(LStrip(s))

\* _parse_json_file(path), text the content of the file
ParseJsonFile(text, depth) ==
    LET Stripped(stripped) ==
            IF stripped # <<>> THEN ParseJson(stripped, depth + 1) ELSE Returns(None)
    IN  Stripped(Strip(text))

\* ------------------------------------------------------------------------
\* Texts handed to the extractor
\* ------------------------------------------------------------------------
Alphabet == {"{", "}", "[", "]", ",", "1", "a", " "}

RECURSIVE TextsOfLen(_)
TextsOfLen(n) ==
    IF n = 0 THEN {<<>>}
    ELSE {Append(t, c) : t \in TextsOfLen(n - 1), c \in Alphabet}

Texts == UNION {TextsOfLen(n) : n \in 0..MaxLen}

FencedManifest ==
    <<"H", "e", "r", "e", " ", "i", "s", " ", "t", "h", "e", " ", "m", "a", "n", "i", "f",
      "e", "s", "t", ":", "\n", BQ, BQ, BQ, "j", "s", "o", "n", "\n", "[", "{", "\"", "p",
      "a", "t", "h", "\"", ":", "\"", "R", "E", "A", "D", "M", "E", ".", "m", "d", "\"",
      ",", "\"", "c", "o", "n", "t", "e", "n", "t", "\"", ":", "\"", "h", "i", "\"", "}",
      "]", "\n", BQ, BQ, BQ, "\n", "E", "n", "j", "o", "y", "!">>

FencedObject ==
    <<BQ, BQ, BQ, "j", "s", "o", "n", "\n", "{", "\"", "t", "o", "p", "3", "\"", ":", " ",
      "[", "1", "]", "}", "\n", BQ, BQ, BQ>>

ProseObject ==
    <<"o", "k", " ", "{", "\"", "a", "\"", ":", " ", "1", "}", " ", "e", "n", "d">>

BadObjectThenArray ==
    <<"{", "b", "a", "d", "}", " ", "[", "1", ",", " ", "2", "]">>

BadObjectThenObject ==
    <<"{", "b", "a", "d", "}", " ", "{", "\"", "a", "\"", ":", " ", "1", "}">>

ArrayOfObjects ==
    <<"[", "1", ",", " ", "{", "\"", "a", "\"", ":", " ", "2", "}", "]">>

NoJsonProse ==
    <<"n", "o", "t", "h", "i", "n", "g", " ", "h", "e", "r", "e">>

NumbersArray ==
    <<"n", "o", " ", "[", "-", "1", ",", " ", "1", ".", "5", ",", " ", "2", "e", "-", "2",
      "]">>

\* "[" * 1000: more arrays, one inside the other, than the recursion limit
\* leaves room for in any caller
DeepArray == [j \in 1..RecursionLimit |-> "["]

Samples ==
    {FencedManifest, FencedObject, ProseObject, BadObjectThenArray,
     BadObjectThenObject, ArrayOfObjects, NoJsonProse, NumbersArray, DeepArray}

\* the Python frames a caller may have in use when it makes a call: the top
\* level of a script, a call deep inside an agent framework
CallerFrames == {1, 60}

\* ------------------------------------------------------------------------
\* Characters: their code points, and the order sorted() puts strs in
\* ------------------------------------------------------------------------
UpperCase ==
    <<"A", "B", "C", "D", "E", "F", "G", "H", "I", "J", "K", "L", "M",
      "N", "O", "P", "Q", "R", "S", "T", "U", "V", "W", "X", "Y", "Z">>

LowerCase ==
    <<"a", "b", "c", "d", "e", "f", "g", "h", "i", "j", "k", "l", "m",
      "n", "o", "p", "q", "r", "s", "t", "u", "v", "w", "x", "y", "z">>

\* characters of path names, in code-point order
CodeOrder ==
    <<" ", "-", ".", "0", "1", "2", "3", "4", "5", "6", "7", "8", "9">>
    \o UpperCase \o <<"_">> \o LowerCase

\* the code point that the name u of six characters names
NameCode(u) ==
    HexVal(SubSeq(u, 3, 3)) * 4096 + HexVal(SubSeq(u, 4, 4)) * 256
        + HexVal(SubSeq(u, 5, 5)) * 16 + HexVal(SubSeq(u, 6, 6))

\* the code point a pair of surrogates stands for
PairCode(hi, lo) == 65536 + (hi - 55296) * 1024 + (lo - 56320)

\* ord(c): a character is written as itself (length 1), by its name BQ or
\* "\\b", by the name of its code point (length 6), or by the names of the
\* two surrogates that encode it (length 12)
Ord(c) ==
    IF Len(c) = 6 THEN NameCode(c)
    ELSE IF Len(c) = 12 THEN PairCode(NameCode(SubSeq(c, 1, 6)), NameCode(SubSeq(c, 7, 12)))
    ELSE IF c = "\t" THEN 9 ELSE IF c = "\n" THEN 10 ELSE IF c = "\f" THEN 12
    ELSE IF c = "\r" THEN 13 ELSE IF c = "\\b" THEN 8
    ELSE 31 + CHOOSE j \in 1..Len(Ascii) : Ascii[j] = c

\* the first place where a and b differ, 0 when one begins with the other
FirstDiff(a, b) ==
    IF \E j \in 1..Len(a) : j <= Len(b) /\ a[j] # b[j]
    THEN CHOOSE j \in 1..Len(a) :
             /\ j <= Len(b) /\ a[j] # b[j]
             /\ \A h \in 1..(j - 1) : a[h] = b[h]
    ELSE 0

\* a < b for two str: by the code points of the first characters that differ
StrLess(a, b) ==
    IF FirstDiff(a, b) = 0 THEN Len(a) < Len(b)
    ELSE Ord(a[FirstDiff(a, b)]) < Ord(b[FirstDiff(a, b)])

\* U+212A, the one character that is no letter of ASCII and that str.lower()
\* takes to one ("k"); U+0130 becomes "i" and U+0307, two characters
KelvinSign == UName(8490)

\* c.lower() == w for a character c and a small letter w of ASCII
LowersTo(c, w) ==
    \/ c = w
    \/ \E j \in 1..26 : LowerCase[j] = w /\ UpperCase[j] = c
    \/ w = "k" /\ c = KelvinSign

\* s.lower() == word for a word of small letters of ASCII.  str.lower()
\* lowers character by character; the two that depend on more (U+0130, and
\* a capital sigma, which looks at its neighbours) give no letter of ASCII.
LowerIs(s, word) ==
    Len(s) = Len(word) /\ \A j \in 1..Len(word) : LowersTo(s[j], word[j])

\* int(choice) for a choice of digits
IntOf(cs) == DigitsValue(cs, 1, Len(cs) + 1)

\* ------------------------------------------------------------------------
\* json.dumps(obj, indent=2)
\* ------------------------------------------------------------------------
RECURSIVE NatText(_)
NatText(v) ==
    IF v < 10 THEN <<CodeOrder[v + 4]>>
    ELSE Append(NatText(v \div 10), CodeOrder[(v % 10) + 4])

\* int.__repr__
IntText(v) == IF v < 0 THEN <<"-">> \o NatText(0 - v) ELSE NatText(v)

\* float.__repr__: the shortest digits, in exponent notation below 1e-4 and
\* from 1e16 on
FloatText(v) ==
    IF v.s # <<>> THEN v.s
    ELSE LET ds == NatText(IF v.i < 0 THEN 0 - v.i ELSE v.i)
             len == Len(ds)
             exp10 == len - 1 - v.d
             mantissa == <<ds[1]>> \o (IF len > 1 THEN <<".">> \o Tail(ds) ELSE <<>>)
             body ==
                 IF v.d = 0 THEN ds \o <<".", "0">>
                 ELSE IF v.d < 0 /\ exp10 < 16
                 THEN ds \o [j \in 1..(0 - v.d) |-> "0"] \o <<".", "0">>
                 ELSE IF v.d < 0
                 THEN mantissa \o <<"e", "+">> \o NatText(exp10)
                 ELSE IF exp10 >= 0
                 THEN SubSeq(ds, 1, len - v.d) \o <<".">> \o SubSeq(ds, len - v.d + 1, len)
                 ELSE IF exp10 >= 0 - 4
                 THEN <<"0", ".">> \o [j \in 1..(v.d - len) |-> "0"] \o ds
                 ELSE mantissa
                      \o <<"e", "-">> \o (IF 0 - exp10 < 10 THEN <<"0">> ELSE <<>>)
                      \o NatText(0 - exp10)
         IN  (IF v.i < 0 THEN <<"-">> ELSE <<>>) \o body

\* ESCAPE_ASCII: what the encoder writes for one character of a str; a named
\* character is written as its name
EscapeChar(c) ==
    CASE c = "\"" -> <<"\\", "\"">> [] c = "\\" -> <<"\\", "\\">>
      [] c = "\n" -> <<"\\", "n">> [] c = "\r" -> <<"\\", "r">>
      [] c = "\t" -> <<"\\", "t">> [] c = "\f" -> <<"\\", "f">>
      [] OTHER -> <<c>>

RECURSIVE EscapeStr(_)
\* encode_basestring_ascii(s) without the quotes around it
EscapeStr(cs) == IF cs = <<>> THEN <<>> ELSE EscapeChar(Head(cs)) \o EscapeStr(Tail(cs))

RECURSIVE Spaces(_)
Spaces(n) == IF n = 0 THEN <<>> ELSE Append(Spaces(n - 1), " ")

\* the newline and indentation before an item at nesting depth level
NewlineIndent(level) == <<"\n">> \o Spaces(2 * level)

RECURSIVE Dumps(_, _)
RECURSIVE DumpItems(_, _, _)

\* the items j.. of a list or dict, separated by "," and each on its own line
DumpItems(v, j, level) ==
    IF j > Len(v.e) THEN <<>>
    ELSE (IF j > 1 THEN <<",">> ELSE <<>>)
         \o NewlineIndent(level)
         \o (IF v.k = "dict" THEN <<"\"">> \o EscapeStr(v.n[j]) \o <<"\"", ":", " ">> ELSE <<>>)
         \o Dumps(v.e[j], level)
         \o DumpItems(v, j + 1, level)

\* the encoder's output for v, whose items are nested at depth level + 1
Dumps(v, level) ==
    CASE v.k = "None" -> <<"n", "u", "l", "l">>
      [] v.k = "bool" -> IF v.i = 1 THEN <<"t", "r", "u", "e">>
                         ELSE <<"f", "a", "l", "s", "e">>
      [] v.k = "int" -> IntText(v.i)
      [] v.k = "float" -> FloatText(v)
      [] v.k = "str" -> <<"\"">> \o EscapeStr(v.s) \o <<"\"">>
      [] v.k = "list" ->
            IF v.e = <<>> THEN <<"[", "]">>
            ELSE <<"[">> \o DumpItems(v, 1, level + 1) \o NewlineIndent(level) \o <<"]">>
      [] v.k = "dict" ->
            IF v.e = <<>> THEN <<"{", "}">>
            ELSE <<"{">> \o DumpItems(v, 1, level + 1) \o NewlineIndent(level) \o <<"}">>

\* json.dumps(chosen, indent=2)
JsonDumps(v) == Dumps(v, 0)

\* ------------------------------------------------------------------------
\* str(), repr() and the UTF-8 encoder, for the texts the program prints and
\* the file names it hands to the kernel
\* ------------------------------------------------------------------------
\* an exception by the name of its class and str(exc); NoExc when none
NoExc == [type |-> "", msg |-> ""]

Exc(type, msg) == [type |-> type, msg |-> msg]

RECURSIVE NatStr(_)
\* "%d" % n
NatStr(n) ==
    IF n < 10 THEN CodeOrder[n + 4] ELSE NatStr(n \div 10) \o CodeOrder[(n % 10) + 4]

RECURSIVE JoinText(_)
\* "".join(parts), put together by halves
JoinText(parts) ==
    IF parts = <<>> THEN ""
    ELSE IF Len(parts) = 1 THEN parts[1]
    ELSE JoinText(SubSeq(parts, 1, Len(parts) \div 2))
         \o JoinText(SubSeq(parts, (Len(parts) \div 2) + 1, Len(parts)))

\* where the parts of s.split(sep) end: before every sep, and at the end of s
PartEnds(s, sep) == {j \in 1..Len(s) : s[j] = sep} \cup {Len(s) + 1}

\* the k-th of them
PartEnd(s, sep, k) ==
    CHOOSE j \in PartEnds(s, sep) : Cardinality({h \in PartEnds(s, sep) : h < j}) = k - 1

\* s.split(sep)
Split(s, sep) ==
    [k \in 1..Cardinality(PartEnds(s, sep)) |->
        SubSeq(s, IF k = 1 THEN 1 ELSE PartEnd(s, sep, k - 1) + 1, PartEnd(s, sep, k) - 1)]

\* the code points from U+0080 on that str.isprintable() refuses (Unicode
\* 14.0, the database of Python 3.11), as ranges
NonPrintableRanges ==
    {<<128, 160>>, <<173, 173>>, <<888, 889>>, <<896, 899>>, <<907, 907>>, <<909, 909>>,
     <<930, 930>>, <<1328, 1328>>, <<1367, 1368>>, <<1419, 1420>>, <<1424, 1424>>,
     <<1480, 1487>>, <<1515, 1518>>, <<1525, 1541>>, <<1564, 1564>>, <<1757, 1757>>,
     <<1806, 1807>>, <<1867, 1868>>, <<1970, 1983>>, <<2043, 2044>>, <<2094, 2095>>,
     <<2111, 2111>>, <<2140, 2141>>, <<2143, 2143>>, <<2155, 2159>>, <<2191, 2199>>,
     <<2274, 2274>>, <<2436, 2436>>, <<2445, 2446>>, <<2449, 2450>>, <<2473, 2473>>,
     <<2481, 2481>>, <<2483, 2485>>, <<2490, 2491>>, <<2501, 2502>>, <<2505, 2506>>,
     <<2511, 2518>>, <<2520, 2523>>, <<2526, 2526>>, <<2532, 2533>>, <<2559, 2560>>,
     <<2564, 2564>>, <<2571, 2574>>, <<2577, 2578>>, <<2601, 2601>>, <<2609, 2609>>,
     <<2612, 2612>>, <<2615, 2615>>, <<2618, 2619>>, <<2621, 2621>>, <<2627, 2630>>,
     <<2633, 2634>>, <<2638, 2640>>, <<2642, 2648>>, <<2653, 2653>>, <<2655, 2661>>,
     <<2679, 2688>>, <<2692, 2692>>, <<2702, 2702>>, <<2706, 2706>>, <<2729, 2729>>,
     <<2737, 2737>>, <<2740, 2740>>, <<2746, 2747>>, <<2758, 2758>>, <<2762, 2762>>,
     <<2766, 2767>>, <<2769, 2783>>, <<2788, 2789>>, <<2802, 2808>>, <<2816, 2816>>,
     <<2820, 2820>>, <<2829, 2830>>, <<2833, 2834>>, <<2857, 2857>>, <<2865, 2865>>,
     <<2868, 2868>>, <<2874, 2875>>, <<2885, 2886>>, <<2889, 2890>>, <<2894, 2900>>,
     <<2904, 2907>>, <<2910, 2910>>, <<2916, 2917>>, <<2936, 2945>>, <<2948, 2948>>,
     <<2955, 2957>>, <<2961, 2961>>, <<2966, 2968>>, <<2971, 2971>>, <<2973, 2973>>,
     <<2976, 2978>>, <<2981, 2983>>, <<2987, 2989>>, <<3002, 3005>>, <<3011, 3013>>,
     <<3017, 3017>>, <<3022, 3023>>, <<3025, 3030>>, <<3032, 3045>>, <<3067, 3071>>,
     <<3085, 3085>>, <<3089, 3089>>, <<3113, 3113>>, <<3130, 3131>>, <<3141, 3141>>,
     <<3145, 3145>>, <<3150, 3156>>, <<3159, 3159>>, <<3163, 3164>>, <<3166, 3167>>,
     <<3172, 3173>>, <<3184, 3190>>, <<3213, 3213>>, <<3217, 3217>>, <<3241, 3241>>,
     <<3252, 3252>>, <<3258, 3259>>, <<3269, 3269>>, <<3273, 3273>>, <<3278, 3284>>,
     <<3287, 3292>>, <<3295, 3295>>, <<3300, 3301>>, <<3312, 3312>>, <<3315, 3327>>,
     <<3341, 3341>>, <<3345, 3345>>, <<3397, 3397>>, <<3401, 3401>>, <<3408, 3411>>,
     <<3428, 3429>>, <<3456, 3456>>, <<3460, 3460>>, <<3479, 3481>>, <<3506, 3506>>,
     <<3516, 3516>>, <<3518, 3519>>, <<3527, 3529>>, <<3531, 3534>>, <<3541, 3541>>,
     <<3543, 3543>>, <<3552, 3557>>, <<3568, 3569>>, <<3573, 3584>>, <<3643, 3646>>,
     <<3676, 3712>>, <<3715, 3715>>, <<3717, 3717>>, <<3723, 3723>>, <<3748, 3748>>,
     <<3750, 3750>>, <<3774, 3775>>, <<3781, 3781>>, <<3783, 3783>>, <<3790, 3791>>,
     <<3802, 3803>>, <<3808, 3839>>, <<3912, 3912>>, <<3949, 3952>>, <<3992, 3992>>,
     <<4029, 4029>>, <<4045, 4045>>, <<4059, 4095>>, <<4294, 4294>>, <<4296, 4300>>,
     <<4302, 4303>>, <<4681, 4681>>, <<4686, 4687>>, <<4695, 4695>>, <<4697, 4697>>,
     <<4702, 4703>>, <<4745, 4745>>, <<4750, 4751>>, <<4785, 4785>>, <<4790, 4791>>,
     <<4799, 4799>>, <<4801, 4801>>, <<4806, 4807>>, <<4823, 4823>>, <<4881, 4881>>,
     <<4886, 4887>>, <<4955, 4956>>, <<4989, 4991>>, <<5018, 5023>>, <<5110, 5111>>,
     <<5118, 5119>>, <<5760, 5760>>, <<5789, 5791>>, <<5881, 5887>>, <<5910, 5918>>,
     <<5943, 5951>>, <<5972, 5983>>, <<5997, 5997>>, <<6001, 6001>>, <<6004, 6015>>,
     <<6110, 6111>>, <<6122, 6127>>, <<6138, 6143>>, <<6158, 6158>>, <<6170, 6175>>,
     <<6265, 6271>>, <<6315, 6319>>, <<6390, 6399>>, <<6431, 6431>>, <<6444, 6447>>,
     <<6460, 6463>>, <<6465, 6467>>, <<6510, 6511>>, <<6517, 6527>>, <<6572, 6575>>,
     <<6602, 6607>>, <<6619, 6621>>, <<6684, 6685>>, <<6751, 6751>>, <<6781, 6782>>,
     <<6794, 6799>>, <<6810, 6815>>, <<6830, 6831>>, <<6863, 6911>>, <<6989, 6991>>,
     <<7039, 7039>>, <<7156, 7163>>, <<7224, 7226>>, <<7242, 7244>>, <<7305, 7311>>,
     <<7355, 7356>>, <<7368, 7375>>, <<7419, 7423>>, <<7958, 7959>>, <<7966, 7967>>,
     <<8006, 8007>>, <<8014, 8015>>, <<8024, 8024>>, <<8026, 8026>>, <<8028, 8028>>,
     <<8030, 8030>>, <<8062, 8063>>, <<8117, 8117>>, <<8133, 8133>>, <<8148, 8149>>,
     <<8156, 8156>>, <<8176, 8177>>, <<8181, 8181>>, <<8191, 8207>>, <<8232, 8239>>,
     <<8287, 8303>>, <<8306, 8307>>, <<8335, 8335>>, <<8349, 8351>>, <<8385, 8399>>,
     <<8433, 8447>>, <<8588, 8591>>, <<9255, 9279>>, <<9291, 9311>>, <<11124, 11125>>,
     <<11158, 11158>>, <<11508, 11512>>, <<11558, 11558>>, <<11560, 11564>>, <<11566, 11567>>,
     <<11624, 11630>>, <<11633, 11646>>, <<11671, 11679>>, <<11687, 11687>>, <<11695, 11695>>,
     <<11703, 11703>>, <<11711, 11711>>, <<11719, 11719>>, <<11727, 11727>>, <<11735, 11735>>,
     <<11743, 11743>>, <<11870, 11903>>, <<11930, 11930>>, <<12020, 12031>>, <<12246, 12271>>,
     <<12284, 12288>>, <<12352, 12352>>, <<12439, 12440>>, <<12544, 12548>>, <<12592, 12592>>,
     <<12687, 12687>>, <<12772, 12783>>, <<12831, 12831>>, <<42125, 42127>>, <<42183, 42191>>,
     <<42540, 42559>>, <<42744, 42751>>, <<42955, 42959>>, <<42962, 42962>>, <<42964, 42964>>,
     <<42970, 42993>>, <<43053, 43055>>, <<43066, 43071>>, <<43128, 43135>>, <<43206, 43213>>,
     <<43226, 43231>>, <<43348, 43358>>, <<43389, 43391>>, <<43470, 43470>>, <<43482, 43485>>,
     <<43519, 43519>>, <<43575, 43583>>, <<43598, 43599>>, <<43610, 43611>>, <<43715, 43738>>,
     <<43767, 43776>>, <<43783, 43784>>, <<43791, 43792>>, <<43799, 43807>>, <<43815, 43815>>,
     <<43823, 43823>>, <<43884, 43887>>, <<44014, 44015>>, <<44026, 44031>>, <<55204, 55215>>,
     <<55239, 55242>>, <<55292, 63743>>, <<64110, 64111>>, <<64218, 64255>>, <<64263, 64274>>,
     <<64280, 64284>>, <<64311, 64311>>, <<64317, 64317>>, <<64319, 64319>>, <<64322, 64322>>,
     <<64325, 64325>>, <<64451, 64466>>, <<64912, 64913>>, <<64968, 64974>>, <<64976, 65007>>,
     <<65050, 65055>>, <<65107, 65107>>, <<65127, 65127>>, <<65132, 65135>>, <<65141, 65141>>,
     <<65277, 65280>>, <<65471, 65473>>, <<65480, 65481>>, <<65488, 65489>>, <<65496, 65497>>,
     <<65501, 65503>>, <<65511, 65511>>, <<65519, 65531>>, <<65534, 65535>>, <<65548, 65548>>,
     <<65575, 65575>>, <<65595, 65595>>, <<65598, 65598>>, <<65614, 65615>>, <<65630, 65663>>,
     <<65787, 65791>>, <<65795, 65798>>, <<65844, 65846>>, <<65935, 65935>>, <<65949, 65951>>,
     <<65953, 65999>>, <<66046, 66175>>, <<66205, 66207>>, <<66257, 66271>>, <<66300, 66303>>,
     <<66340, 66348>>, <<66379, 66383>>, <<66427, 66431>>, <<66462, 66462>>, <<66500, 66503>>,
     <<66518, 66559>>, <<66718, 66719>>, <<66730, 66735>>, <<66772, 66775>>, <<66812, 66815>>,
     <<66856, 66863>>, <<66916, 66926>>, <<66939, 66939>>, <<66955, 66955>>, <<66963, 66963>>,
     <<66966, 66966>>, <<66978, 66978>>, <<66994, 66994>>, <<67002, 67002>>, <<67005, 67071>>,
     <<67383, 67391>>, <<67414, 67423>>, <<67432, 67455>>, <<67462, 67462>>, <<67505, 67505>>,
     <<67515, 67583>>, <<67590, 67591>>, <<67593, 67593>>, <<67638, 67638>>, <<67641, 67643>>,
     <<67645, 67646>>, <<67670, 67670>>, <<67743, 67750>>, <<67760, 67807>>, <<67827, 67827>>,
     <<67830, 67834>>, <<67868, 67870>>, <<67898, 67902>>, <<67904, 67967>>, <<68024, 68027>>,
     <<68048, 68049>>, <<68100, 68100>>, <<68103, 68107>>, <<68116, 68116>>, <<68120, 68120>>,
     <<68150, 68151>>, <<68155, 68158>>, <<68169, 68175>>, <<68185, 68191>>, <<68256, 68287>>,
     <<68327, 68330>>, <<68343, 68351>>, <<68406, 68408>>, <<68438, 68439>>, <<68467, 68471>>,
     <<68498, 68504>>, <<68509, 68520>>, <<68528, 68607>>, <<68681, 68735>>, <<68787, 68799>>,
     <<68851, 68857>>, <<68904, 68911>>, <<68922, 69215>>, <<69247, 69247>>, <<69290, 69290>>,
     <<69294, 69295>>, <<69298, 69375>>, <<69416, 69423>>, <<69466, 69487>>, <<69514, 69551>>,
     <<69580, 69599>>, <<69623, 69631>>, <<69710, 69713>>, <<69750, 69758>>, <<69821, 69821>>,
     <<69827, 69839>>, <<69865, 69871>>, <<69882, 69887>>, <<69941, 69941>>, <<69960, 69967>>,
     <<70007, 70015>>, <<70112, 70112>>, <<70133, 70143>>, <<70162, 70162>>, <<70207, 70271>>,
     <<70279, 70279>>, <<70281, 70281>>, <<70286, 70286>>, <<70302, 70302>>, <<70314, 70319>>,
     <<70379, 70383>>, <<70394, 70399>>, <<70404, 70404>>, <<70413, 70414>>, <<70417, 70418>>,
     <<70441, 70441>>, <<70449, 70449>>, <<70452, 70452>>, <<70458, 70458>>, <<70469, 70470>>,
     <<70473, 70474>>, <<70478, 70479>>, <<70481, 70486>>, <<70488, 70492>>, <<70500, 70501>>,
     <<70509, 70511>>, <<70517, 70655>>, <<70748, 70748>>, <<70754, 70783>>, <<70856, 70863>>,
     <<70874, 71039>>, <<71094, 71095>>, <<71134, 71167>>, <<71237, 71247>>, <<71258, 71263>>,
     <<71277, 71295>>, <<71354, 71359>>, <<71370, 71423>>, <<71451, 71452>>, <<71468, 71471>>,
     <<71495, 71679>>, <<71740, 71839>>, <<71923, 71934>>, <<71943, 71944>>, <<71946, 71947>>,
     <<71956, 71956>>, <<71959, 71959>>, <<71990, 71990>>, <<71993, 71994>>, <<72007, 72015>>,
     <<72026, 72095>>, <<72104, 72105>>, <<72152, 72153>>, <<72165, 72191>>, <<72264, 72271>>,
     <<72355, 72367>>, <<72441, 72703>>, <<72713, 72713>>, <<72759, 72759>>, <<72774, 72783>>,
     <<72813, 72815>>, <<72848, 72849>>, <<72872, 72872>>, <<72887, 72959>>, <<72967, 72967>>,
     <<72970, 72970>>, <<73015, 73017>>, <<73019, 73019>>, <<73022, 73022>>, <<73032, 73039>>,
     <<73050, 73055>>, <<73062, 73062>>, <<73065, 73065>>, <<73103, 73103>>, <<73106, 73106>>,
     <<73113, 73119>>, <<73130, 73439>>, <<73465, 73647>>, <<73649, 73663>>, <<73714, 73726>>,
     <<74650, 74751>>, <<74863, 74863>>, <<74869, 74879>>, <<75076, 77711>>, <<77811, 77823>>,
     <<78895, 82943>>, <<83527, 92159>>, <<92729, 92735>>, <<92767, 92767>>, <<92778, 92781>>,
     <<92863, 92863>>, <<92874, 92879>>, <<92910, 92911>>, <<92918, 92927>>, <<92998, 93007>>,
     <<93018, 93018>>, <<93026, 93026>>, <<93048, 93052>>, <<93072, 93759>>, <<93851, 93951>>,
     <<94027, 94030>>, <<94088, 94094>>, <<94112, 94175>>, <<94181, 94191>>, <<94194, 94207>>,
     <<100344, 100351>>, <<101590, 101631>>, <<101641, 110575>>, <<110580, 110580>>,
     <<110588, 110588>>, <<110591, 110591>>, <<110883, 110927>>, <<110931, 110947>>,
     <<110952, 110959>>, <<111356, 113663>>, <<113771, 113775>>, <<113789, 113791>>,
     <<113801, 113807>>, <<113818, 113819>>, <<113824, 118527>>, <<118574, 118575>>,
     <<118599, 118607>>, <<118724, 118783>>, <<119030, 119039>>, <<119079, 119080>>,
     <<119155, 119162>>, <<119275, 119295>>, <<119366, 119519>>, <<119540, 119551>>,
     <<119639, 119647>>, <<119673, 119807>>, <<119893, 119893>>, <<119965, 119965>>,
     <<119968, 119969>>, <<119971, 119972>>, <<119975, 119976>>, <<119981, 119981>>,
     <<119994, 119994>>, <<119996, 119996>>, <<120004, 120004>>, <<120070, 120070>>,
     <<120075, 120076>>, <<120085, 120085>>, <<120093, 120093>>, <<120122, 120122>>,
     <<120127, 120127>>, <<120133, 120133>>, <<120135, 120137>>, <<120145, 120145>>,
     <<120486, 120487>>, <<120780, 120781>>, <<121484, 121498>>, <<121504, 121504>>,
     <<121520, 122623>>, <<122655, 122879>>, <<122887, 122887>>, <<122905, 122906>>,
     <<122914, 122914>>, <<122917, 122917>>, <<122923, 123135>>, <<123181, 123183>>,
     <<123198, 123199>>, <<123210, 123213>>, <<123216, 123535>>, <<123567, 123583>>,
     <<123642, 123646>>, <<123648, 124895>>, <<124903, 124903>>, <<124908, 124908>>,
     <<124911, 124911>>, <<124927, 124927>>, <<125125, 125126>>, <<125143, 125183>>,
     <<125260, 125263>>, <<125274, 125277>>, <<125280, 126064>>, <<126133, 126208>>,
     <<126270, 126463>>, <<126468, 126468>>, <<126496, 126496>>, <<126499, 126499>>,
     <<126501, 126502>>, <<126504, 126504>>, <<126515, 126515>>, <<126520, 126520>>,
     <<126522, 126522>>, <<126524, 126529>>, <<126531, 126534>>, <<126536, 126536>>,
     <<126538, 126538>>, <<126540, 126540>>, <<126544, 126544>>, <<126547, 126547>>,
     <<126549, 126550>>, <<126552, 126552>>, <<126554, 126554>>, <<126556, 126556>>,
     <<126558, 126558>>, <<126560, 126560>>, <<126563, 126563>>, <<126565, 126566>>,
     <<126571, 126571>>, <<126579, 126579>>, <<126584, 126584>>, <<126589, 126589>>,
     <<126591, 126591>>, <<126602, 126602>>, <<126620, 126624>>, <<126628, 126628>>,
     <<126634, 126634>>, <<126652, 126703>>, <<126706, 126975>>, <<127020, 127023>>,
     <<127124, 127135>>, <<127151, 127152>>, <<127168, 127168>>, <<127184, 127184>>,
     <<127222, 127231>>, <<127406, 127461>>, <<127491, 127503>>, <<127548, 127551>>,
     <<127561, 127567>>, <<127570, 127583>>, <<127590, 127743>>, <<128728, 128732>>,
     <<128749, 128751>>, <<128765, 128767>>, <<128884, 128895>>, <<128985, 128991>>,
     <<129004, 129007>>, <<129009, 129023>>, <<129036, 129039>>, <<129096, 129103>>,
     <<129114, 129119>>, <<129160, 129167>>, <<129198, 129199>>, <<129202, 129279>>,
     <<129620, 129631>>, <<129646, 129647>>, <<129653, 129655>>, <<129661, 129663>>,
     <<129671, 129679>>, <<129709, 129711>>, <<129723, 129727>>, <<129734, 129743>>,
     <<129754, 129759>>, <<129768, 129775>>, <<129783, 129791>>, <<129939, 129939>>,
     <<129995, 130031>>, <<130042, 131071>>, <<173792, 173823>>, <<177977, 177983>>,
     <<178206, 178207>>, <<183970, 183983>>, <<191457, 194559>>, <<195102, 196607>>,
     <<201547, 917759>>, <<918000, 1114111>>}

\* not chr(n).isprintable()
NonPrintable(n) ==
    \/ n < 32
    \/ n = 127
    \/ \E r \in NonPrintableRanges : r[1] <= n /\ n <= r[2]

\* n in base 16, written with width digits
HexText(n, width) == [j \in 1..width |-> HexDigits[((n \div (16 ^ (width - j))) % 16) + 1]]

\* what repr writes for the code point n of a character it does not show
ReprEscape(n) ==
    IF n < 256 THEN <<"\\", "x">> \o HexText(n, 2)
    ELSE IF n < 65536 THEN <<"\\", "u">> \o HexText(n, 4)
    ELSE <<"\\", "U">> \o HexText(n, 8)

\* unicode_repr: what repr writes for one character of a str in the quotes q
ReprChar(c, q) ==
    IF c = "\\" \/ c = q THEN <<"\\", c>>
    ELSE IF c = "\t" THEN <<"\\", "t">>
    ELSE IF c = "\n" THEN <<"\\", "n">>
    ELSE IF c = "\r" THEN <<"\\", "r">>
    ELSE IF Len(c) = 1 /\ c # "\f" THEN <<c>>
    ELSE IF NonPrintable(Ord(c)) THEN ReprEscape(Ord(c))
    ELSE <<c>>

RECURSIVE ReprChars(_, _)
\* the characters of s as repr shows them between the quotes q, by halves
ReprChars(s, q) ==
    IF s = <<>> THEN <<>>
    ELSE IF Len(s) = 1 THEN ReprChar(s[1], q)
    ELSE ReprChars(SubSeq(s, 1, Len(s) \div 2), q)
         \o ReprChars(SubSeq(s, (Len(s) \div 2) + 1, Len(s)), q)

\* the quotes of repr(s): double ones when s holds a single quote and no
\* double one
ReprQuote(s) ==
    IF (\E j \in 1..Len(s) : s[j] = "'") /\ ~(\E j \in 1..Len(s) : s[j] = "\"")
    THEN "\"" ELSE "'"

\* repr(s) of a str
ReprStr(s) == <<ReprQuote(s)>> \o ReprChars(s, ReprQuote(s)) \o <<ReprQuote(s)>>

\* float.__repr__, nan and the infinities included
FloatRepr(v) ==
    IF v = NaN THEN <<"n", "a", "n">>
    ELSE IF v = Infinity THEN <<"i", "n", "f">>
    ELSE IF v = NegInfinity THEN <<"-", "i", "n", "f">>
    ELSE FloatText(v)

RECURSIVE Repr(_)
RECURSIVE ReprItems(_, _)

\* the items j.. of a list or dict, separated by ", "
ReprItems(v, j) ==
    IF j > Len(v.e) THEN <<>>
    ELSE (IF j > 1 THEN <<",", " ">> ELSE <<>>)
         \o (IF v.k = "dict" THEN ReprStr(v.n[j]) \o <<":", " ">> ELSE <<>>)
         \o Repr(v.e[j])
         \o ReprItems(v, j + 1)

\* repr(v).  A value json decoded within the recursion limit is not nested
\* too deep for repr, which takes one level for each level of the value as
\* the decoder did.
Repr(v) ==
    CASE v.k = "None" -> <<"N", "o", "n", "e">>
      [] v.k = "bool" -> IF v.i = 1 THEN <<"T", "r", "u", "e">>
                         ELSE <<"F", "a", "l", "s", "e">>
      [] v.k = "int" -> IntText(v.i)
      [] v.k = "float" -> FloatRepr(v)
      [] v.k = "str" -> ReprStr(v.s)
      [] v.k = "list" -> <<"[">> \o ReprItems(v, 1) \o <<"]">>
      [] v.k = "dict" -> <<"{">> \o ReprItems(v, 1) \o <<"}">>

\* format(v, ""), what an f-string writes for {v}: a str as it is, any other
\* value by its repr
Format(v) == IF v.k = "str" THEN v.s ELSE Repr(v)

\* the code points U+D800..U+DFFF, which UTF-8 does not encode
Surrogates == {UName(n) : n \in 55296..57343}

\* the code points U+DC80..U+DCFF, which the error handler surrogateescape
\* turns back into the bytes they stand for
Escapable == {UName(n) : n \in 56448..56575}

\* the encoder with the error handler errors ("strict" or "surrogateescape")
\* cannot encode the character at j of t
Unencodable(t, j, errors) ==
    t[j] \in Surrogates /\ (errors = "surrogateescape" => t[j] \notin Escapable)

\* the last position of the run of surrogates that holds position j
RunEnd(t, j) ==
    CHOOSE e \in j..Len(t) :
        /\ \A h \in j..e : t[h] \in Surrogates
        /\ e = Len(t) \/ t[e + 1] \notin Surrogates

\* str(UnicodeEncodeError("utf-8", t, start - 1, end, "surrogates not allowed"))
EncodeErrorMsg(t, start, end) ==
    "'utf-8' codec can't encode "
    \o (IF start = end
        THEN "character '" \o t[start] \o "' in position " \o NatStr(start - 1)
        ELSE "characters in position " \o NatStr(start - 1) \o "-" \o NatStr(end - 1))
    \o ": surrogates not allowed"

\* t.encode("utf-8", errors): the exception it raises, NoExc when it encodes.
\* The encoder stops at the first run of surrogates; surrogateescape passes
\* the escapable ones at the start of the run.
EncodeError(t, errors) ==
    IF \E j \in 1..Len(t) : Unencodable(t, j, errors)
    THEN LET start == CHOOSE j \in 1..Len(t) :
                          /\ Unencodable(t, j, errors)
                          /\ \A h \in 1..(j - 1) : ~Unencodable(t, h, errors)
         IN  Exc("UnicodeEncodeError", EncodeErrorMsg(t, start, RunEnd(t, start)))
    ELSE NoExc

\* ------------------------------------------------------------------------
\* Run Ledger (storage/recorder.py over the runs table of storage/db.py)
\* ------------------------------------------------------------------------
\* a nullable column holds <<>> for NULL and <<v>> for the value v
Null == <<>>

\* Run(topic=topic) with the column defaults, inserted with the next id
NewRun(l, topic, now) ==
    [id |-> Len(l) + 1, started_at |-> now, finished_at |-> Null,
     topic |-> topic, status |-> "running", error |-> Null]

\* start_run(topic): the table after the commit; the new row's id is its length
StartRun(l, topic, now) == Append(l, NewRun(l, topic, now))

\* finish_run(run_id, status, error): session.get, then the update when found
FinishRun(l, run_id, status, error, now) ==
    IF run_id \in 1..Len(l)
    THEN [l EXCEPT ![run_id] = [@ EXCEPT !.finished_at = <<now>>,
                                         !.status = status,
                                         !.error = error]]
    ELSE l

\* ------------------------------------------------------------------------
\* The file system, as pathlib and the kernel treat the paths of the program.
\* A file is named by the names on the way to it from the root, each a str;
\* fs.dirs are the directories and fs.files the regular files with their
\* text.  There are no links, every directory may be written to, and the
\* tool calls stay clear of storage/ and logs/, which the model keeps apart.
\* ------------------------------------------------------------------------
Root == <<>>

Parent(p) == SubSeq(p, 1, Len(p) - 1)

\* p and the directories above it
Prefixes(p) == {SubSeq(p, 1, n) : n \in 0..Len(p)}

IsDir(fs, p) == p \in fs.dirs

IsFile(fs, p) == p \in DOMAIN fs.files

Exists(fs, p) == IsDir(fs, p) \/ IsFile(fs, p)

\* os.getcwd(), the directory Cwd
CwdParts == <<<<"s", "r", "v">>, <<"a", "p", "p">>>>

OutputName == <<"o", "u", "t", "p", "u", "t">>

\* where the kernel finds the relative path output
OutputDir == Append(CwdParts, OutputName)

\* the working directory before anything was written to output/
NoOutput == [dirs |-> Prefixes(CwdParts), files |-> <<>>]

\* ---- pathlib.PurePosixPath: the root ("", "/" or "//") and the names
Pure(root, parts) == [root |-> root, parts |-> parts]

\* Path("output")
OUTPUT_DIR == Pure("", <<OutputName>>)

DotDot == <<".", ".">>

\* splitroot: a segment that starts with a slash is absolute; exactly two
\* slashes are kept as they are
SegRoot(seg) ==
    IF At(seg, 1) # "/" THEN ""
    ELSE IF At(seg, 2) = "/" /\ At(seg, 3) # "/" THEN "//"
    ELSE "/"

\* parse_parts: the names between the slashes, without the empty ones and "."
SegParts(seg) == SelectSeq(Split(seg, "/"), LAMBDA x : x # <<>> /\ x # <<".">>)

\* p / seg: an absolute segment replaces what came before it
Join(p, seg) ==
    IF SegRoot(seg) # "" THEN Pure(SegRoot(seg), SegParts(seg))
    ELSE Pure(p.root, p.parts \o SegParts(seg))

\* p.parent: the last name dropped, ".." like any other
PathParent(p) == IF p.parts = <<>> THEN p ELSE Pure(p.root, Parent(p.parts))

RECURSIVE SlashJoin(_)
\* "/".join(parts)
SlashJoin(parts) ==
    IF parts = <<>> THEN <<>>
    ELSE IF Len(parts) = 1 THEN parts[1]
    ELSE parts[1] \o <<"/">> \o SlashJoin(Tail(parts))

\* str(p)
PathStr(p) ==
    IF p.root = "" /\ p.parts = <<>> THEN <<".">>
    ELSE (IF p.root = "//" THEN <<"/", "/">> ELSE IF p.root = "/" THEN <<"/">> ELSE <<>>)
         \o SlashJoin(p.parts)

\* ---- the kernel
\* NAME_MAX: the bytes of one name
NameMax == 255

\* PATH_MAX: the bytes of a path, its terminating zero included
PathMax == 4096

\* the bytes UTF-8 makes of code point n of the basic plane
CodeBytes(n) ==
    IF n < 128 THEN 1 ELSE IF n < 2048 THEN 2 ELSE 3

\* the bytes os.fsencode makes of a character: UTF-8, and one byte for a
\* surrogate that stands for a byte (U+DC80 to U+DCFF)
CharBytes(c) ==
    IF Len(c) = 12 THEN 4
    ELSE IF Len(c) # 6 \/ c \in Escapable THEN 1
    ELSE CodeBytes(Ord(c))

RECURSIVE Bytes(_)
\* len(os.fsencode(s))
Bytes(s) ==
    IF s = <<>> THEN 0
    ELSE IF Len(s) = 1 THEN CharBytes(s[1])
    ELSE Bytes(SubSeq(s, 1, Len(s) \div 2)) + Bytes(SubSeq(s, (Len(s) \div 2) + 1, Len(s)))

\* no exception
NoErr == [type |-> "", errno |-> "", text |-> <<>>]

\* an exception that is no OSError
Err(e) == [type |-> e.type, errno |-> "", text |-> <<e.msg>>]

OsErrorType(errno) ==
    CASE errno = "ENOENT" -> "FileNotFoundError"
      [] errno = "EEXIST" -> "FileExistsError"
      [] errno = "ENOTDIR" -> "NotADirectoryError"
      [] errno = "EISDIR" -> "IsADirectoryError"
      [] errno = "ENAMETOOLONG" -> "OSError"

OsErrorText(errno) ==
    CASE errno = "ENOENT" -> "[Errno 2] No such file or directory: "
      [] errno = "EEXIST" -> "[Errno 17] File exists: "
      [] errno = "ENOTDIR" -> "[Errno 20] Not a directory: "
      [] errno = "EISDIR" -> "[Errno 21] Is a directory: "
      [] errno = "ENAMETOOLONG" -> "[Errno 36] File name too long: "

\* the OSError of a system call on the path p; text is str(exc)
OsError(errno, p) ==
    [type |-> OsErrorType(errno), errno |-> errno,
     text |-> <<OsErrorText(errno)>> \o ReprStr(PathStr(p))]

\* what a call leaves: the file system, and the exception it raised
Left(fs, err) == [fs |-> fs, err |-> err]

\* the directory a system call on p starts in
Start(p) == IF p.root = "" THEN CwdParts ELSE Root

RECURSIVE Walk(_, _, _)
\* the path walk from the directory cur along names: where it ends, or the
\* error that stops it
Walk(fs, cur, names) ==
    IF names = <<>> THEN [errno |-> "", at |-> cur]
    ELSE IF ~IsDir(fs, cur) THEN [errno |-> "ENOTDIR", at |-> cur]
    ELSE IF Head(names) = DotDot THEN Walk(fs, Parent(cur), Tail(names))
    ELSE IF Bytes(Head(names)) > NameMax THEN [errno |-> "ENAMETOOLONG", at |-> cur]
    ELSE IF ~Exists(fs, Append(cur, Head(names))) THEN [errno |-> "ENOENT", at |-> cur]
    ELSE Walk(fs, Append(cur, Head(names)), Tail(names))

\* the exception of the conversion of the text t of a path for a system
\* call, enc being what os.fsencode raised: then the test for a zero byte
FsError(t, enc) ==
    IF enc # NoExc THEN Err(enc)
    ELSE IF \E j \in 1..Len(t) : t[j] = UName(0)
    THEN Err(Exc("ValueError", "embedded null byte"))
    ELSE NoErr

\* the conversion of p for a system call: its exception, or NoErr
FsEncodeError(p) == FsError(PathStr(p), EncodeError(PathStr(p), "surrogateescape"))

\* the kernel's look at a path whose last name is to be created, w being the
\* walk to the directory of that name: the errno, "" when the name may be
\* looked for in w.at (notAName is the errno for a name that is none:
\* EEXIST for mkdir, EISDIR for open)
CreateErrno(fs, p, notAName, w) ==
    IF Bytes(PathStr(p)) >= PathMax THEN "ENAMETOOLONG"
    ELSE IF p.parts = <<>> THEN notAName
    ELSE IF w.errno # "" THEN w.errno
    ELSE IF ~IsDir(fs, w.at) THEN "ENOTDIR"
    ELSE IF p.parts[Len(p.parts)] = DotDot THEN notAName
    ELSE IF Bytes(p.parts[Len(p.parts)]) > NameMax THEN "ENAMETOOLONG"
    ELSE ""

\* the walk to the directory of the last name of p
WalkToParent(fs, p) == Walk(fs, Start(p), Parent(p.parts))

\* the file the last name of p names, once CreateErrno found no error
Target(fs, p) == Append(WalkToParent(fs, p).at, p.parts[Len(p.parts)])

\* the errno of mkdir(p), "" when the directory is made
MkdirErrno(fs, p, errno) ==
    IF errno # "" THEN errno
    ELSE IF Exists(fs, Target(fs, p)) THEN "EEXIST"
    ELSE ""

\* the errno of open(p, O_WRONLY | O_CREAT | O_TRUNC), "" when it opens
OpenErrno(fs, p, errno) ==
    IF errno # "" THEN errno
    ELSE IF IsDir(fs, Target(fs, p)) THEN "EISDIR"
    ELSE ""

\* what a system call on p leaves: enc is the exception of the conversion of
\* p, errno the kernel's answer, done the file system when the call succeeds
Called(fs, p, enc, errno, done) ==
    IF enc # NoErr THEN Left(fs, enc)
    ELSE IF errno # "" THEN Left(fs, OsError(errno, p))
    ELSE Left(done, NoErr)

\* os.mkdir(p)
OsMkdir(fs, p) ==
    Called(fs, p, FsEncodeError(p),
           MkdirErrno(fs, p, CreateErrno(fs, p, "EEXIST", WalkToParent(fs, p))),
           [fs EXCEPT !.dirs = @ \cup {Target(fs, p)}])

\* the kernel's look at the path p, w being the walk along all its names
StatErrno(p, w) == IF Bytes(PathStr(p)) >= PathMax THEN "ENAMETOOLONG" ELSE w.errno

\* the result of os.stat(p): the file it finds, or the error
Found(enc, errno, p, w) ==
    IF enc # NoErr THEN [err |-> enc, at |-> Root]
    ELSE IF errno # "" THEN [err |-> OsError(errno, p), at |-> Root]
    ELSE [err |-> NoErr, at |-> w.at]

\* os.stat(p)
Stat(fs, p) ==
    Found(FsEncodeError(p), StatErrno(p, Walk(fs, Start(p), p.parts)), p,
          Walk(fs, Start(p), p.parts))

\* _ignore_error(exc), and the  except ValueError  next to it: the errors of
\* stat that exists() and is_dir() answer False to
Ignored(err) ==
    err.errno \in {"ENOENT", "ENOTDIR"} \/ err.type \in {"ValueError", "UnicodeEncodeError"}

\* the answer of exists() or is_dir() to the result st of stat, found being
\* the answer for the file stat found: val, or the exception that is not
\* ignored
Answer(st, found) ==
    IF st.err = NoErr THEN [val |-> found, err |-> NoErr]
    ELSE IF Ignored(st.err) THEN [val |-> FALSE, err |-> NoErr]
    ELSE [val |-> FALSE, err |-> st.err]

\* p.exists()
PathExists(fs, p) == Answer(Stat(fs, p), TRUE)

\* S_ISDIR(st.st_mode)
StatIsDir(fs, st) == st.err = NoErr /\ IsDir(fs, st.at)

\* the answer of is_dir() to the result st of stat
IsDirAnswer(fs, st) == Answer(st, StatIsDir(fs, st))

\* p.is_dir()
PathIsDir(fs, p) == IsDirAnswer(fs, Stat(fs, p))

\* the end of the except OSError clause of Path.mkdir, r being what
\* os.mkdir(p) left and d the answer of p.is_dir()
Passed(r, d) ==
    IF d.err # NoErr THEN Left(r.fs, d.err)
    ELSE IF d.val THEN Left(r.fs, NoErr)
    ELSE r

\* the except OSError clause of Path.mkdir with exist_ok=True, r being what
\* os.mkdir(p) left: a missing parent is raised again (the caller sees to
\* it), any other error is passed over when p is a directory
ExistOk(r, p) ==
    IF r.err.errno \in {"", "ENOENT"} THEN r ELSE Passed(r, PathIsDir(r.fs, p))

RECURSIVE PathMkdir(_, _)
\* the second half of the except FileNotFoundError clause of Path.mkdir,
\* above being what p.parent.mkdir(parents=True, exist_ok=True) left:
\* p.mkdir(parents=False, exist_ok=True)
MkdirUnder(above, p) ==
    IF above.err # NoErr THEN above ELSE ExistOk(OsMkdir(above.fs, p), p)

\* Path.mkdir after its os.mkdir(p) left first: when the parent is missing,
\* the same for p.parent and then os.mkdir(p) once more
MkdirFrom(first, p) ==
    IF first.err.errno # "ENOENT" THEN ExistOk(first, p)
    ELSE IF PathParent(p) = p THEN first
    ELSE MkdirUnder(PathMkdir(first.fs, PathParent(p)), p)

\* p.mkdir(parents=True, exist_ok=True)
PathMkdir(fs, p) == MkdirFrom(OsMkdir(fs, p), p)

\* open(p, "w"): the file is created, or emptied when it is there
OpenW(fs, p) ==
    Called(fs, p, FsEncodeError(p),
           OpenErrno(fs, p, CreateErrno(fs, p, "EISDIR", WalkToParent(fs, p))),
           [fs EXCEPT !.files = (Target(fs, p) :> <<>>) @@ @])

\* the rest of p.write_text(content, encoding="utf-8") once open left o: the
\* text is encoded (enc is the exception of that), and written
WriteOpened(o, p, content, enc) ==
    IF o.err # NoErr THEN o
    ELSE IF enc # NoExc THEN Left(o.fs, Err(enc))
    ELSE Left([o.fs EXCEPT !.files = (Target(o.fs, p) :> content) @@ @], NoErr)

\* p.write_text(content, encoding="utf-8"): the file is opened, then the
\* text is encoded, and written when that succeeds
WriteText(fs, p, content) == WriteOpened(OpenW(fs, p), p, content, EncodeError(content, "strict"))

\* file_path.write_text(content) after file_path.parent.mkdir left made; an
\* exception leaves what was done before it
ThenWrite(made, file_path, content) ==
    IF made.err # NoErr THEN made ELSE WriteText(made.fs, file_path, content)

\* the try body of FileWriterTool._run
FileWriterTry(fs, file_path, content) ==
    ThenWrite(PathMkdir(fs, PathParent(file_path)), file_path, content)

\* the return of FileWriterTool._run, tried being what its try body left
RunReturn(tried, file_path, content) ==
    [fs |-> tried.fs,
     text |-> IF tried.err = NoErr
              THEN <<"OK: wrote ">> \o PathStr(file_path) \o <<" (">>
                   \o NatText(Len(content)) \o <<" chars)">>
              ELSE <<"ERROR: ">> \o tried.err.text]

\* file_path = OUTPUT_DIR / project_slug / path
FilePath(project_slug, path) == Join(Join(OUTPUT_DIR, project_slug), path)

\* FileWriterTool._run(project_slug, path, content): the file system
\* afterwards, and the text returned to the agent
FileWriterRun(fs, project_slug, path, content) ==
    RunReturn(FileWriterTry(fs, FilePath(project_slug, path), content),
              FilePath(project_slug, path), content)

\* the tool calls of one agent run, in order
RECURSIVE WriteAll(_, _)
WriteAll(fs, calls) ==
    IF calls = <<>> THEN fs
    ELSE WriteAll(FileWriterRun(fs, Head(calls).project_slug, Head(calls).path,
                                Head(calls).content).fs,
                  Tail(calls))

\* [d for d in sorted(Path("output").iterdir()) if d.is_dir()], as a set
OutputDirs(fs) == {d \in fs.dirs : Len(d) = Len(OutputDir) + 1 /\ Parent(d) = OutputDir}

\* dirs[-1] of the sorted list: paths compare name by name, and the names
\* as strs
LastDir(fs) ==
    CHOOSE d \in OutputDirs(fs) :
        \A o \in OutputDirs(fs) : o = d \/ StrLess(o[Len(o)], d[Len(d)])

\* ------------------------------------------------------------------------
\* What the agents and the operator can produce (the inputs of the model)
\* ------------------------------------------------------------------------
\* re-prompts modelled at one human gate
MaxReject == 1

\* invocations of the command line modelled in a row
MaxInvocations == 1

Rank == <<"r", "a", "n", "k">>

TrendTitle == <<"t", "r", "e", "n", "d", "_", "t", "i", "t", "l", "e">>

OneLiner == <<"o", "n", "e", "_", "l", "i", "n", "e", "r">>

FeasibilityScore ==
    <<"f", "e", "a", "s", "i", "b", "i", "l", "i", "t", "y", "_", "s", "c", "o", "r", "e">>

TargetUser == <<"t", "a", "r", "g", "e", "t", "_", "u", "s", "e", "r">>

Top3 == <<"t", "o", "p", "3">>

\* the keys _prompt_idea_choice reads of every idea, in the order it reads them
IdeaKeys == <<Rank, TrendTitle, OneLiner, FeasibilityScore, TargetUser>>

Quoted(cs) == <<"\"">> \o cs \o <<"\"">>

Member(key, valueText) == Quoted(key) \o <<":", " ">> \o valueText

\* an idea as the Evaluation agent writes it
IdeaText(rank, title) ==
    <<"{">> \o Member(Rank, <<rank>>) \o <<",", " ">>
    \o Member(TrendTitle, Quoted(title)) \o <<",", " ">>
    \o Member(OneLiner, Quoted(<<"x">>)) \o <<",", " ">>
    \o Member(FeasibilityScore, <<"7">>) \o <<",", " ">>
    \o Member(TargetUser, Quoted(<<"u">>)) \o <<"}">>

RECURSIVE Joined(_)
Joined(texts) ==
    IF texts = <<>> THEN <<>>
    ELSE IF Len(texts) = 1 THEN texts[1]
    ELSE texts[1] \o <<",", " ">> \o Joined(Tail(texts))

ListText(texts) == <<"[">> \o Joined(texts) \o <<"]">>

Top3Text(texts) == <<"{">> \o Member(Top3, ListText(texts)) \o <<"}">>

TitleA == <<"A", "b">>

TitleB == <<"c", " ", "d">>

TitleC == <<"e">>

GoodTop3 ==
    Top3Text(<<IdeaText("1", TitleA), IdeaText("2", TitleB), IdeaText("3", TitleC)>>)

TwoIdeas == Top3Text(<<IdeaText("1", TitleA), IdeaText("2", TitleB)>>)

RepeatedRank ==
    Top3Text(<<IdeaText("1", TitleA), IdeaText("1", TitleB), IdeaText("3", TitleC)>>)

BareList ==
    ListText(<<IdeaText("1", TitleA), IdeaText("2", TitleB), IdeaText("3", TitleC)>>)

NoRankKey == Top3Text(<<<<"{">> \o Member(TrendTitle, Quoted(TitleA)) \o <<"}">>>>)

OtherField == <<"{">> \o Member(<<"i", "d", "e", "a", "s">>, <<"[", "1", "]">>) \o <<"}">>

\* the escape of U+D800, a surrogate without its pair, as JSON writes it
HalfPairEscape == <<"\\", "u", "d", "8", "0", "0">>

\* an idea whose title UTF-8 does not encode
UnprintableTitle == Top3Text(<<IdeaText("1", HalfPairEscape)>>)

\* what the Evaluation agent may leave in storage/critic_top3.json
CriticTexts ==
    {GoodTop3, TwoIdeas, RepeatedRank, BareList, NoRankKey, OtherField, UnprintableTitle,
     FencedObject, NoJsonProse, <<"{", "}">>, <<" ">>, DeepArray}

\* a list of one trend with this title
TrendsText(title) ==
    ListText(<<<<"{">> \o Member(<<"t", "i", "t", "l", "e">>, Quoted(title)) \o <<"}">>>>)

\* t behind braces that hold no JSON: the extractor comes to the list of t
AfterBadObject(t) == <<"{", "b", "a", "d", "}", " ">> \o t

\* what the Discovery agent may leave in storage/trend_list.json
TrendTexts ==
    {TrendsText(TitleC), AfterBadObject(TrendsText(TitleC)),
     AfterBadObject(TrendsText(HalfPairEscape)),
     <<"[", "1", "]">>, <<"[", "{", "}", "]">>, NoJsonProse, DeepArray}

\* what the operator may type at the Selection gate
ChoiceInputs == {<<"1">>, <<"2">>, <<" ", "3", " ">>, <<"4">>, <<>>}

\* what the operator may type at the Approval gate
ApprovalInputs == {<<"y">>, <<"Y", "e", "s">>, <<"n">>, <<" ", "N", "O">>, <<"o", "k">>}

\* --topic
Topics == {Null, <<"ai">>}

Readme == <<"R", "E", "A", "D", "M", "E", ".", "m", "d">>

Src == <<"s", "r", "c">>

\* src/app.py
SrcAppPy == Src \o <<"/", "a", "p", "p", ".", "p", "y">>

OtherSlug == <<"z", "z">>

\* ../zz/./n: a way out of the project directory
Sideways == <<".", ".", "/", "z", "z", "/", ".", "/", "n">>

\* a name of one byte more than the kernel takes
LongName == [j \in 1..(NameMax + 1) |-> "a"]

Hi == <<"h", "i">>

\* a text that UTF-8 does not encode: a surrogate without its pair
HalfPair == <<"x", UName(55357)>>

Call(project_slug, path, content) ==
    [project_slug |-> project_slug, path |-> path, content |-> content]

\* the FileWriterTool calls the Construction agent may make, told the slug
BuilderCalls(slug) ==
    {<<>>,
     <<Call(slug, Readme, Hi)>>,
     <<Call(slug, Readme, Hi), Call(slug, SrcAppPy, <<"x">>)>>,
     <<Call(slug, Src, <<"x">>), Call(slug, SrcAppPy, <<"x">>)>>,
     <<Call(OtherSlug, Readme, <<"y", "o">>)>>,
     <<Call(slug, <<>>, Hi)>>,
     <<Call(slug, Sideways, HalfPair)>>,
     <<Call(slug, LongName, Hi)>>}

\* ------------------------------------------------------------------------
\* State
\* ------------------------------------------------------------------------
VARIABLES
    text,         \* extractor: the text handed to it
    result,       \* extractor: what the call returned (raised, val)
    called,       \* extractor: "none", "_parse_json" or "_parse_json_file"
    frames,       \* the Python frames in use where the first call is made
    pc,           \* where the process is: the call it is about to make or is in
    mode,         \* "none", "run", "dry-run" or "recover"
    exc,          \* the exception being raised (NoExc when none)
    exitCode,     \* the exit status of the process, -1 while it runs
    ledger,       \* the runs table, row i having id i
    clock,        \* datetime.utcnow() as a counter
    run_id,       \* the id start_run returned, 0 before
    trace,        \* the calls made by this invocation, in order
    top3,         \* the list _stage_critic returned
    chosen,       \* the idea _prompt_idea_choice returned
    rejected,     \* inputs refused so far at the gate the process is blocked in
    approved,     \* what _prompt_design_approval returned: "", "yes" or "no"
    scope,        \* "try" in the try body of _run_pipeline, "except" in an except clause
    interrupted,  \* the operator's interrupt has reached this invocation
    failure,      \* the first exception a statement of this invocation raised
    slug,         \* the name of the project directory the invocation works on
    materialized, \* "yes" / "no": output/<slug> was there when _stage_builder looked
    before,       \* the mode, ledger and output/ the previous invocation left
    storage,      \* the artifact slots under storage/
    output,       \* the file system, where the program writes below output/
    errors,       \* sys.stdout.errors: how print treats what UTF-8 does not encode
    invocations,  \* how many times the command was started
    tool,         \* adapters: the tool whose _run was called last, "none" before
    world,        \* adapters: what that call was given (environment, arguments, answers)
    ran           \* adapters: the text it returned and the external calls it attempted

vars ==
    <<text, result, called, frames, pc, mode, exc, exitCode, ledger, clock, run_id, trace,
      top3, chosen, rejected, approved, scope, interrupted, failure, slug, materialized,
      before, storage, output, errors, invocations, tool, world, ran>>

extractorVars == <<text, result, called, frames>>

adapterVars == <<tool, world, ran>>

pipelineVars ==
    <<pc, mode, exc, exitCode, ledger, clock, run_id, trace, top3, chosen, rejected,
      approved, scope, interrupted, failure, slug, materialized, before, storage, output,
      errors, invocations>>

\* an artifact slot: absent, or a file with its text.  The text is kept for
\* the slots that outlive the step that reads them (Chosen Idea, Construction
\* output); of the others the state keeps that they were written.
Absent_ == [exists |-> FALSE, text |-> <<>>]

File(t) == [exists |-> TRUE, text |-> t]

Written == [exists |-> TRUE, text |-> <<>>]

Slots == {"trend_list.json", "critic_top3.json", "chosen_idea.json",
          "design_sheet.md", "builder_output.txt"}

PipelineIdle ==
    /\ pc = "idle"
    /\ mode = "none"
    /\ exc = NoExc
    /\ exitCode = -1
    /\ ledger = <<>>
    /\ clock = 1
    /\ run_id = 0
    /\ trace = <<>>
    /\ top3 = None
    /\ chosen = None
    /\ rejected = 0
    /\ approved = ""
    /\ scope = "none"
    /\ interrupted = FALSE
    /\ failure = [exc |-> NoExc, at |-> 0]
    /\ slug = <<>>
    /\ materialized = ""
    /\ before = [mode |-> "none", ledger |-> <<>>, output |-> NoOutput]
    /\ storage = [f \in Slots |-> Absent_]
    /\ output = NoOutput
    /\ errors = "strict"
    /\ invocations = 0

ExtractorIdle ==
    /\ text = <<>>
    /\ result = Returns(None)
    /\ called = "none"

\* os.getenv(name): None when unset
Unset == [set |-> FALSE, value |-> ""]

EnvValue(v) == [set |-> TRUE, value |-> v]

\* not os.getenv(name)
NotSet(e) == ~e.set \/ e.value = ""

\* no tool has been called
AdaptersIdle ==
    /\ tool = "none"
    /\ world = [env |-> [n \in {} |-> Unset], args |-> <<>>, fetch |-> <<>>]
    /\ ran = [text |-> <<>>, calls |-> <<>>]

\* ------------------------------------------------------------------------
\* The extractor on its own
\* ------------------------------------------------------------------------
InitExtract ==
    /\ text \in Texts \cup Samples
    /\ frames \in CallerFrames
    /\ result = Returns(None)
    /\ called = "none"
    /\ PipelineIdle
    /\ AdaptersIdle

CallParseJson ==
    /\ called = "none"
    /\ result' = ParseJson(text, frames)
    /\ called' = "_parse_json"
    /\ UNCHANGED <<text, frames, pipelineVars, adapterVars>>

CallParseJsonFile ==
    /\ called = "none"
    /\ result' = ParseJsonFile(text, frames)
    /\ called' = "_parse_json_file"
    /\ UNCHANGED <<text, frames, pipelineVars, adapterVars>>

NextExtract == CallParseJson \/ CallParseJsonFile

SpecExtract == InitExtract /\ [][NextExtract]_vars

\* ------------------------------------------------------------------------
\* The pipeline process (main, _run_pipeline, _recover).  pc names the
\* statement the process is about to execute; the operator's interrupt can
\* reach it before any of them.
\* ------------------------------------------------------------------------
Modes == {"run", "dry-run", "recover"}

\* the stages that drive an Agent Executor, as trace names them
AgentStages == {"_stage_scout", "_stage_critic", "_stage_architect", "_stage_builder"}

\* where the process is inside Crew(...).kickoff()
AgentCalls == {"_stage_scout", "_stage_critic", "_stage_architect", "kickoff"}

\* the statements of the process: every value of pc while it runs and no
\* exception is in flight
Interruptible ==
    AgentCalls \cup
    {"_check_api_key", "load_config", "start_run", "logger.info",
     "_prompt_idea_choice", "input_choice", "_prompt_design_approval", "input_approval",
     "rejected", "sys.exit", "_stage_builder", "project_dir.exists", "git_init",
     "logger.warning", "print", "finish_run", "end_try", "return",
     "except KeyboardInterrupt", "sys.exit Interrupted", "except Exception",
     "sys.exit Pipeline error", "_recover", "recover git_init", "recover print",
     "trends = _parse_json_file", "raw = _parse_json_file"}

\* control is in the body of the try statement of _run_pipeline (lines 214-236)
InTry == scope = "try"

\* subclasses of Exception among the exceptions of the model
IsException(type) == type \notin {"", "KeyboardInterrupt", "SystemExit"}

\* the except clause of _run_pipeline that takes an exception of this type
\* raised where control is
Handler(type) ==
    IF ~InTry THEN "none"
    ELSE IF type = "KeyboardInterrupt" THEN "KeyboardInterrupt"
    ELSE IF IsException(type) THEN "Exception"
    ELSE "none"

\* if dry_run: ... return
DryRunNever(m) == FALSE

DryRunBranch(m) == m = "dry-run"

\* a str literal of the source that no operation takes apart (a key, a source
\* name, a message), written as one element
Lit(s) == <<s>>

\* type(v).__name__
TypeName(v) == IF v.k = "None" THEN "NoneType" ELSE v.k

\* the exceptions of a sequence of steps, in order: the first one raised
FirstError(steps) ==
    IF \E j \in 1..Len(steps) : steps[j] # NoExc
    THEN steps[CHOOSE j \in 1..Len(steps) :
                   steps[j] # NoExc /\ \A h \in 1..(j - 1) : steps[h] = NoExc]
    ELSE NoExc

\* print(t) on a stdout that encodes UTF-8 with the error handler e
PrintError(t, e) == EncodeError(t, e)

\* the values sys.stdout.errors has: "surrogateescape" under the C locale
StdoutErrors == {"strict", "surrogateescape"}

Title == <<"t", "i", "t", "l", "e">>

WhyTrending == <<"w", "h", "y", "_", "t", "r", "e", "n", "d", "i", "n", "g">>

\* f"{i}. {t.get('title', '?')} — {t.get('why_trending', '')}"
TrendLine(i, t) ==
    NatText(i) \o <<".", " ">>
    \o Format(IF HasKey(t, Title) THEN DictGet(t, Title) ELSE PyStr(<<"?">>))
    \o <<" ", UName(8212), " ">>
    \o Format(IF HasKey(t, WhyTrending) THEN DictGet(t, WhyTrending) ELSE PyStr(<<>>))

\* line 206 for the i-th item t: t.get of an item that is no dict, then print
TrendError(i, t, e) ==
    IF t.k # "dict"
    THEN Exc("AttributeError", "'" \o TypeName(t) \o "' object has no attribute 'get'")
    ELSE PrintError(TrendLine(i, t), e)

\* the loop over enumerate(trends, 1) of the preview: the first item that
\* raises (iterating a dict yields its keys)
PrintTrendsError(trends, e) ==
    IF trends.k = "dict"
    THEN Exc("AttributeError", "'str' object has no attribute 'get'")
    ELSE FirstError([j \in 1..Len(trends.e) |-> TrendError(j, trends.e[j], e)])

\* _stage_critic after the agent has run: the exception it ends with, or top3
CriticOutcome(t) ==
    LET Checked(raw, top) ==
            IF ~Truthy(raw)
            THEN [exc |-> Exc("SystemExit", "Critic produced no parseable output."),
                  top3 |-> None]
            ELSE IF ~Truthy(top)
            THEN [exc |-> Exc("SystemExit", "Critic output missing 'top3' list."),
                  top3 |-> None]
            ELSE [exc |-> NoExc, top3 |-> top]
        Raw(raw) == Checked(raw, IF raw.k = "dict" THEN DictGet(raw, Top3) ELSE raw)
        Read(p) == IF p.raised # "" THEN [exc |-> Exc(p.raised, p.str), top3 |-> None]
                   ELSE Raw(p.val)
    IN  Read(ParseJsonFile(t, frames + 3))

\* str(KeyError(key)) for the keys the display reads
KeyErrorMsg(key) ==
    CASE key = Rank -> "'rank'"
      [] key = TrendTitle -> "'trend_title'"
      [] key = OneLiner -> "'one_liner'"
      [] key = FeasibilityScore -> "'feasibility_score'"
      [] key = TargetUser -> "'target_user'"

\* str(TypeError) of idea['rank'] for an idea that is no dict
NotSubscriptable(idea) ==
    CASE idea.k = "str" -> "string indices must be integers, not 'str'"
      [] idea.k = "list" -> "list indices must be integers or slices, not str"
      [] idea.k = "None" -> "'NoneType' object is not subscriptable"
      [] idea.k = "bool" -> "'bool' object is not subscriptable"
      [] idea.k = "float" -> "'float' object is not subscriptable"
      [] OTHER -> "'int' object is not subscriptable"

\* idea[key]
MissingKey(idea, key) == IF HasKey(idea, key) THEN NoExc ELSE Exc("KeyError", KeyErrorMsg(key))

\* f"\n  [{idea['rank']}]  {idea['trend_title']}"
RankLine(idea) ==
    <<"\n", " ", " ", "[">> \o Format(DictGet(idea, Rank)) \o <<"]", " ", " ">>
    \o Format(DictGet(idea, TrendTitle))

\* f"       {idea['one_liner']}"
OneLinerLine(idea) == Spaces(7) \o Format(DictGet(idea, OneLiner))

\* f"       Feasibility: {idea['feasibility_score']}/10"
FeasibilityLine(idea) ==
    Spaces(7) \o <<"F", "e", "a", "s", "i", "b", "i", "l", "i", "t", "y", ":", " ">>
    \o Format(DictGet(idea, FeasibilityScore)) \o <<"/", "1", "0">>

\* f"       Target: {idea['target_user']}"
TargetLine(idea) ==
    Spaces(7) \o <<"T", "a", "r", "g", "e", "t", ":", " ">> \o Format(DictGet(idea, TargetUser))

\* lines 113-116 for one idea: every line reads its keys, then prints
IdeaError(idea, e) ==
    IF idea.k # "dict" THEN Exc("TypeError", NotSubscriptable(idea))
    ELSE FirstError(<<MissingKey(idea, Rank), MissingKey(idea, TrendTitle),
                      PrintError(RankLine(idea), e),
                      MissingKey(idea, OneLiner), PrintError(OneLinerLine(idea), e),
                      MissingKey(idea, FeasibilityScore), PrintError(FeasibilityLine(idea), e),
                      MissingKey(idea, TargetUser), PrintError(TargetLine(idea), e)>>)

\* the display loop of _prompt_idea_choice: the first idea that raises
\* (iterating a str yields its characters, a dict its keys)
DisplayError(top, e) ==
    IF top.k \in {"int", "float", "bool"}
    THEN Exc("TypeError", "'" \o TypeName(top) \o "' object is not iterable")
    ELSE IF top.k \in {"str", "dict"}
    THEN Exc("TypeError", "string indices must be integers, not 'str'")
    ELSE FirstError([j \in 1..Len(top.e) |-> IdeaError(top.e[j], e)])

\* x["rank"] == int(choice)
RankIs(x, n) ==
    LET r == DictGet(x, Rank)
    IN  /\ r.k \in {"int", "float", "bool"}
        /\ r.s \in {<<>>, NegZero.s}
        /\ r.d = 0
        /\ r.i = n

\* next(x for x in top3 if x["rank"] == int(choice)): the index, 0 for StopIteration
FirstWithRank(top, n) ==
    IF \E j \in 1..Len(top.e) : RankIs(top.e[j], n)
    THEN CHOOSE j \in 1..Len(top.e) :
             RankIs(top.e[j], n) /\ \A h \in 1..(j - 1) : ~RankIs(top.e[h], n)
    ELSE 0

\* choice in ("1", "2", "3")
AcceptedChoice(c) == c \in {<<"1">>, <<"2">>, <<"3">>}

\* the answer _prompt_design_approval takes the input for: "yes", "no" or ""
ApprovalAnswer(inp) ==
    IF LowerIs(Strip(inp), <<"y">>) \/ LowerIs(Strip(inp), <<"y", "e", "s">>) THEN "yes"
    ELSE IF LowerIs(Strip(inp), <<"n">>) \/ LowerIs(Strip(inp), <<"n", "o">>) THEN "no"
    ELSE ""

\* the slugs of the model: what slugify may return
Slugs == {<<"a", "b">>, <<"c", "-", "d">>}

\* agents.builder.slugify(title): its body is not part of the source at
\* hand, so a call may return any slug or raise
SlugifyOutcomes ==
    {[slug |-> s, exc |-> NoExc] : s \in Slugs}
        \cup {[slug |-> <<>>, exc |-> Exc("TypeError", "slugify")]}

DotGit == <<".", "g", "i", "t">>

GitIgnore == <<".", "g", "i", "t", "i", "g", "n", "o", "r", "e">>

\* agents.builder.git_init(project_dir): its body is not part of the source
\* at hand, so a call may leave the directory as it is, add to it (a
\* directory, a file), change a file of it, or raise
GitInitOutcomes(fs, project_dir) ==
    LET repo == [fs EXCEPT !.dirs = @ \cup {Append(project_dir, DotGit)}]
        ignore == [repo EXCEPT !.files = (Append(project_dir, GitIgnore) :> <<>>) @@ @]
        emptied == [fs EXCEPT !.files =
                       [f \in DOMAIN @ |->
                           IF SubSeq(f, 1, Len(project_dir)) = project_dir THEN <<>> ELSE @[f]]]
    IN  {[fs |-> o, exc |-> NoExc] :
             o \in {fs} \cup (IF IsDir(fs, project_dir) THEN {repo, ignore, emptied} ELSE {})}
            \cup {[fs |-> fs, exc |-> Exc("CalledProcessError", "git_init")]}

\* no exception was raised yet
NoFailure == [exc |-> NoExc, at |-> 0]

\* raise e, the calls made so far being q; failure keeps the first exception
\* a statement of this invocation raised (the sys.exit of the rejection or of
\* an except clause is no failure) and how many calls had been made by then
Raise(e, q) ==
    /\ pc' = "raising"
    /\ exc' = e
    /\ failure' = IF failure = NoFailure THEN [exc |-> e, at |-> Len(q)] ELSE failure

\* the statement at p is next
Goto(p) == pc' = p /\ exc' = exc /\ failure' = failure

\* a statement that raised e, or raised nothing (NoExc) and is followed by p
RaiseOrGoto(e, q, p) == IF e # NoExc THEN Raise(e, q) ELSE Goto(p)

\* the process ends with this exit status
Exit(code) == pc' = "exited" /\ exitCode' = code

\* the last statement of an invocation: it raised e, or the process ends
\* with status 0
RaiseOrExit(e, q) ==
    IF e # NoExc THEN Raise(e, q) /\ exitCode' = exitCode
    ELSE Exit(0) /\ UNCHANGED <<exc, failure>>

\* what the statements of one invocation leave alone
invocationVars == <<mode, before, errors, invocations, extractorVars, adapterVars>>

\* the directory the command is started in
Cwd == "/srv/app"

\* os.path.abspath(Path("logs") / "pipeline.log"), as FileHandler keeps it
LogFile == Cwd \o "/logs/pipeline.log"

\* python main.py in mode m, after the previous command has ended, with
\* sys.stdout.errors being e.  The module body runs first:
\* logging.FileHandler opens logs/pipeline.log and raises when the directory
\* logs/ is missing.
Main(m, logs, e) ==
    /\ pc \in {"idle", "exited"}
    /\ invocations < MaxInvocations
    /\ invocations' = invocations + 1
    /\ mode' = m
    /\ errors' = e
    /\ IF ~logs
       THEN /\ pc' = "raising"
            /\ exc' = Exc("FileNotFoundError",
                          "[Errno 2] No such file or directory: '" \o LogFile \o "'")
            /\ failure' = [exc |-> exc', at |-> 0]
       ELSE /\ pc' = IF m = "recover" THEN "_recover" ELSE "_check_api_key"
            /\ exc' = NoExc
            /\ failure' = NoFailure
    /\ before' = [mode |-> mode, ledger |-> ledger, output |-> output]
    /\ exitCode' = -1
    /\ run_id' = 0
    /\ scope' = "none"
    /\ interrupted' = FALSE
    /\ trace' = <<>>
    /\ top3' = None
    /\ chosen' = None
    /\ rejected' = 0
    /\ approved' = ""
    /\ slug' = <<>>
    /\ materialized' = ""
    /\ UNCHANGED <<ledger, clock, storage, output, extractorVars, adapterVars>>

\* _check_api_key()
CheckApiKey(key) ==
    /\ pc = "_check_api_key"
    /\ IF ~key
       THEN Raise(Exc("SystemExit",
                "Error: ANTHROPIC_API_KEY is not set. Add it to .env or your environment."),
                  trace)
       ELSE Goto("load_config")
    /\ UNCHANGED <<exitCode, ledger, clock, run_id, scope, interrupted, trace, top3, chosen,
                   rejected, approved, slug, materialized, storage, output, invocationVars>>

\* CONFIG_DIR, main.py being in src/ below Cwd
ConfigDir == Cwd \o "/src/config"

\* the files of config/ in the order _run_pipeline loads them
ConfigFiles == <<"agents.yaml", "tasks.yaml">>

\* what open and yaml.safe_load find of the two files: a file is there and
\* holds the mappings the stages read, or it is not there, or what it holds
\* is no YAML
ConfigWorlds == [{"agents.yaml", "tasks.yaml"} -> {"yaml", "missing", "malformed"}]

\* _load_yaml(name) of a file in state found: open raises for a file that is
\* not there, yaml.safe_load raises a yaml.YAMLError for one that is no YAML
\* (the text of that exception is the parser's account of the file and is
\* left empty here)
LoadYamlError(name, found) ==
    IF found = "missing"
    THEN Exc("FileNotFoundError",
             "[Errno 2] No such file or directory: '" \o ConfigDir \o "/" \o name \o "'")
    ELSE IF found = "malformed" THEN Exc("YAMLError", "")
    ELSE NoExc

\* lines 193-199: the two directories, _load_yaml of the two files of config/
\* as config has them, then the branch on dry_run
LoadConfig(config) ==
    /\ pc = "load_config"
    /\ RaiseOrGoto(FirstError([j \in 1..2 |->
                                  LoadYamlError(ConfigFiles[j], config[ConfigFiles[j]])]),
                   trace,
                   IF DryRunBranch(mode) THEN "_stage_scout" ELSE "start_run")
    /\ UNCHANGED <<exitCode, ledger, clock, run_id, scope, interrupted, trace, top3, chosen,
                   rejected, approved, slug, materialized, storage, output, invocationVars>>

\* run_id = start_run(topic=topic)
DoStartRun(topic) ==
    /\ pc = "start_run"
    /\ ledger' = StartRun(ledger, topic, clock)
    /\ run_id' = Len(ledger')
    /\ clock' = clock + 1
    /\ trace' = Append(trace, "start_run")
    /\ pc' = "logger.info"
    /\ UNCHANGED <<exc, failure, exitCode, scope, interrupted, top3, chosen, rejected, approved,
                   slug, materialized, storage, output, invocationVars>>

\* logger.info("Starting run ...") of line 212, then control enters the try
EnterTry ==
    /\ pc = "logger.info"
    /\ scope' = "try"
    /\ pc' = "_stage_scout"
    /\ UNCHANGED <<exc, failure, exitCode, ledger, clock, run_id, interrupted, trace, top3, chosen,
                   rejected, approved, slug, materialized, storage, output, invocationVars>>

\* _stage_scout (lines 76-85): the agent runs and leaves t in its slot.  The
\* preview reads the slot afterwards, so there its text is kept.
StageScout(t) ==
    /\ pc = "_stage_scout"
    /\ trace' = Append(trace, "_stage_scout")
    /\ storage' = [storage EXCEPT
                      !["trend_list.json"] = IF DryRunBranch(mode) THEN File(t) ELSE Written]
    /\ pc' = IF DryRunBranch(mode) THEN "trends = _parse_json_file" ELSE "_stage_critic"
    /\ UNCHANGED <<exc, failure, exitCode, ledger, clock, run_id, scope, interrupted, top3,
                   chosen, rejected, approved, slug, materialized, output, invocationVars>>

\* the listing of the trends read, or the exception its print raises
Listed(trends) ==
    RaiseOrExit(IF Truthy(trends) THEN PrintTrendsError(trends, errors) ELSE NoExc, trace)

\* lines 201-209 of the preview: the slot is read and parsed, the trends are
\* listed, and _run_pipeline and main return
ListTrends ==
    /\ pc = "trends = _parse_json_file"
    /\ LET Read(p) ==
               IF p.raised # ""
               THEN Raise(Exc(p.raised, p.str), trace) /\ exitCode' = exitCode
               ELSE Listed(p.val)
       IN  Read(ParseJsonFile(storage["trend_list.json"].text, frames + 2))
    /\ UNCHANGED <<ledger, clock, run_id, scope, interrupted, trace, top3, chosen, rejected,
                   approved, slug, materialized, storage, output, invocationVars>>

\* _stage_critic up to the return of the agent (lines 89-96), which leaves t
\* in its slot
StageCritic(t) ==
    /\ pc = "_stage_critic"
    /\ trace' = Append(trace, "_stage_critic")
    /\ storage' = [storage EXCEPT !["critic_top3.json"] = File(t)]
    /\ pc' = "raw = _parse_json_file"
    /\ UNCHANGED <<exc, failure, exitCode, ledger, clock, run_id, scope, interrupted, top3,
                   chosen, rejected, approved, slug, materialized, output, invocationVars>>

\* the rest of _stage_critic (lines 98-104): the slot is read and parsed, and
\* top3 is returned or the stage ends the process
ReadCritic ==
    /\ pc = "raw = _parse_json_file"
    /\ LET Returned(o) ==
               IF o.exc # NoExc
               THEN Raise(o.exc, trace) /\ top3' = top3
               ELSE Goto("_prompt_idea_choice") /\ top3' = o.top3
       IN  Returned(CriticOutcome(storage["critic_top3.json"].text))
    /\ UNCHANGED <<exitCode, ledger, clock, run_id, scope, interrupted, trace, chosen,
                   rejected, approved, slug, materialized, storage, output, invocationVars>>

\* _prompt_idea_choice up to its first input(): the ideas are displayed
ShowIdeas ==
    /\ pc = "_prompt_idea_choice"
    /\ trace' = Append(trace, "_prompt_idea_choice")
    /\ rejected' = 0
    /\ RaiseOrGoto(DisplayError(top3, errors), trace', "input_choice")
    /\ UNCHANGED <<exitCode, ledger, clock, run_id, scope, interrupted, top3, chosen,
                   approved, slug, materialized, storage, output, invocationVars>>

\* one pass of the while loop of _prompt_idea_choice, the operator typing inp
InputChoice(inp) ==
    /\ pc = "input_choice"
    /\ LET c == Strip(inp)
           j == FirstWithRank(top3, IntOf(c))
       IN  IF ~AcceptedChoice(c)
           THEN /\ rejected < MaxReject
                /\ rejected' = rejected + 1
                /\ UNCHANGED <<pc, exc, failure, chosen, storage>>
           ELSE IF j = 0
           THEN Raise(Exc("StopIteration", ""), trace)
                /\ UNCHANGED <<rejected, chosen, storage>>
           ELSE /\ chosen' = top3.e[j]
                /\ storage' = [storage EXCEPT
                                  !["chosen_idea.json"] = File(JsonDumps(top3.e[j]))]
                /\ Goto("_stage_architect")
                /\ UNCHANGED rejected
    /\ UNCHANGED <<exitCode, ledger, clock, run_id, scope, interrupted, trace, top3,
                   approved, slug, materialized, output, invocationVars>>

\* input() at either gate when the operator has closed the input
EndOfInput ==
    /\ pc \in {"input_choice", "input_approval"}
    /\ Raise(Exc("EOFError", "EOF when reading a line"), trace)
    /\ UNCHANGED <<exitCode, ledger, clock, run_id, scope, interrupted, trace, top3, chosen,
                   rejected, approved, slug, materialized, storage, output, invocationVars>>

\* _stage_architect, the agent leaving the design sheet in its slot
StageArchitect ==
    /\ pc = "_stage_architect"
    /\ trace' = Append(trace, "_stage_architect")
    /\ storage' = [storage EXCEPT !["design_sheet.md"] = Written]
    /\ pc' = "_prompt_design_approval"
    /\ UNCHANGED <<exc, failure, exitCode, ledger, clock, run_id, scope, interrupted, top3, chosen,
                   rejected, approved, slug, materialized, output, invocationVars>>

\* _prompt_design_approval up to its first input(): the preview is displayed
ShowDesign ==
    /\ pc = "_prompt_design_approval"
    /\ trace' = Append(trace, "_prompt_design_approval")
    /\ rejected' = 0
    /\ pc' = "input_approval"
    /\ UNCHANGED <<exc, failure, exitCode, ledger, clock, run_id, scope, interrupted, top3, chosen,
                   approved, slug, materialized, storage, output, invocationVars>>

\* _run_pipeline without its test of the answer: the Builder comes next
RejectsNothing(answer) == FALSE

\* if not _prompt_design_approval(), for an answer the prompt returned
Rejects(answer) == answer = "no"

\* one pass of the while loop of _prompt_design_approval, the operator typing
\* inp, and the test of line 227 on what the prompt returns
InputApproval(inp) ==
    /\ pc = "input_approval"
    /\ CASE ApprovalAnswer(inp) # "" /\ ~Rejects(ApprovalAnswer(inp)) ->
              /\ approved' = ApprovalAnswer(inp)
              /\ pc' = "_stage_builder"
              /\ UNCHANGED rejected
         [] ApprovalAnswer(inp) # "" /\ Rejects(ApprovalAnswer(inp)) ->
              /\ approved' = ApprovalAnswer(inp)
              /\ pc' = "rejected"
              /\ UNCHANGED rejected
         [] OTHER ->
              /\ rejected < MaxReject
              /\ rejected' = rejected + 1
              /\ UNCHANGED <<pc, approved>>
    /\ UNCHANGED <<exc, failure, exitCode, ledger, clock, run_id, scope, interrupted, trace, top3,
                   chosen, slug, materialized, storage, output, invocationVars>>

\* lines 228-229: logger.info(...), finish_run(run_id, status="error", error=...)
RejectedFinishRun ==
    /\ pc = "rejected"
    /\ ledger' = FinishRun(ledger, run_id, "error",
                           <<"Aborted by user after design review">>, clock)
    /\ clock' = clock + 1
    /\ trace' = Append(trace, "finish_run")
    /\ pc' = "sys.exit"
    /\ UNCHANGED <<exc, failure, exitCode, run_id, scope, interrupted, top3, chosen, rejected,
                   approved, slug, materialized, storage, output, invocationVars>>

\* the exception sys.exit raises at this statement
SysExitMessage(p, e) ==
    CASE p = "sys.exit" ->
             "Aborted. Edit storage/design_sheet.md or re-run to get a new design."
      [] p = "sys.exit Interrupted" -> "\nInterrupted."
      [] p = "sys.exit Pipeline error" -> "Pipeline error: " \o e.msg

\* sys.exit(message) of line 230, 241 or 245
SysExit ==
    /\ pc \in {"sys.exit", "sys.exit Interrupted", "sys.exit Pipeline error"}
    /\ pc' = "raising"
    /\ exc' = Exc("SystemExit", SysExitMessage(pc, exc))
    /\ UNCHANGED <<failure, exitCode, ledger, clock, run_id, scope, interrupted, trace, top3, chosen,
                   rejected, approved, slug, materialized, storage, output, invocationVars>>

RECURSIVE Repeat(_, _)
Repeat(x, n) == IF n = 0 THEN <<>> ELSE Append(Repeat(x, n - 1), x)

\* _stage_builder, lines 163-165: make_builder_agent, the design sheet, and
\* slug = slugify(chosen.get("trend_title", "project")), which returns s.slug
\* or raises s.exc
StageBuilder(s) ==
    /\ pc = "_stage_builder"
    /\ s \in SlugifyOutcomes
    /\ trace' = Append(trace, "_stage_builder")
    /\ IF s.exc # NoExc
       THEN Raise(s.exc, trace') /\ slug' = slug
       ELSE Goto("kickoff") /\ slug' = s.slug
    /\ UNCHANGED <<exitCode, ledger, clock, run_id, scope, interrupted, top3, chosen,
                   rejected, approved, materialized, storage, output, invocationVars>>

\* lines 166-175: the Construction agent runs, making the tool calls calls,
\* and its raw output is written to storage/builder_output.txt
Kickoff(calls) ==
    /\ pc = "kickoff"
    /\ calls \in BuilderCalls(slug)
    /\ output' = WriteAll(output, calls)
    /\ trace' = trace \o Repeat("FileWriterTool", Len(calls))
    /\ storage' = [storage EXCEPT !["builder_output.txt"] = File(FencedManifest)]
    /\ pc' = "project_dir.exists"
    /\ UNCHANGED <<exc, failure, exitCode, ledger, clock, run_id, scope, interrupted, top3, chosen,
                   rejected, approved, slug, materialized, invocationVars>>

\* Path("output") / slug
ProjectDir(s) == Join(OUTPUT_DIR, s)

\* the file the kernel finds for the path p, which exists
FoundAt(fs, p) == Stat(fs, p).at

\* if project_dir.exists()
ProjectDirExists(fs, project_dir) == PathExists(fs, project_dir).val

\* the branch on the answer of project_dir.exists(), or its exception
Tested(answer) ==
    IF answer.err # NoErr
    THEN /\ Raise(Exc(answer.err.type, JoinText(answer.err.text)), trace)
         /\ materialized' = materialized
    ELSE /\ materialized' = IF answer.val THEN "yes" ELSE "no"
         /\ Goto(IF answer.val THEN "git_init" ELSE "logger.warning")

\* lines 176-177.  materialized keeps whether output/<slug> was there when
\* the stage looked.
TestProjectDir ==
    /\ pc = "project_dir.exists"
    /\ Tested(PathExists(output, ProjectDir(slug)))
    /\ UNCHANGED <<exitCode, ledger, clock, run_id, scope, interrupted, trace, top3,
                   chosen, rejected, approved, slug, storage, output, invocationVars>>

\* lines 178-179: git_init(project_dir), which leaves g.fs or raises g.exc,
\* and the print of the directory
StageBuilderGitInit(g) ==
    /\ pc = "git_init"
    /\ g \in GitInitOutcomes(output, FoundAt(output, ProjectDir(slug)))
    /\ trace' = Append(trace, "git_init")
    /\ output' = g.fs
    /\ IF g.exc # NoExc THEN Raise(g.exc, trace') ELSE Goto("print")
    /\ UNCHANGED <<exitCode, ledger, clock, run_id, scope, interrupted, top3, chosen,
                   rejected, approved, slug, materialized, storage, invocationVars>>

\* line 181: logger.warning("Builder finished but %s does not exist", ...)
LogWarning ==
    /\ pc = "logger.warning"
    /\ trace' = Append(trace, "logger.warning")
    /\ pc' = "print"
    /\ UNCHANGED <<exc, failure, exitCode, ledger, clock, run_id, scope, interrupted, top3, chosen,
                   rejected, approved, slug, materialized, storage, output, invocationVars>>

\* line 235: print("\nPipeline complete. ...")
PrintComplete ==
    /\ pc = "print"
    /\ pc' = "finish_run"
    /\ UNCHANGED <<exc, failure, exitCode, ledger, clock, run_id, scope, interrupted, trace, top3,
                   chosen, rejected, approved, slug, materialized, storage, output,
                   invocationVars>>

\* line 236: finish_run(run_id, status="success")
FinishSuccess ==
    /\ pc = "finish_run"
    /\ ledger' = FinishRun(ledger, run_id, "success", Null, clock)
    /\ clock' = clock + 1
    /\ trace' = Append(trace, "finish_run")
    /\ pc' = "end_try"
    /\ UNCHANGED <<exc, failure, exitCode, run_id, scope, interrupted, top3, chosen, rejected,
                   approved, slug, materialized, storage, output, invocationVars>>

\* finish_run has returned and control leaves the try statement
LeaveTry ==
    /\ pc = "end_try"
    /\ scope' = "none"
    /\ pc' = "return"
    /\ UNCHANGED <<exc, failure, exitCode, ledger, clock, run_id, interrupted, trace, top3, chosen,
                   rejected, approved, slug, materialized, storage, output, invocationVars>>

\* _run_pipeline and main return: the process ends with status 0
Return ==
    /\ pc = "return"
    /\ Exit(0)
    /\ UNCHANGED <<exc, failure, ledger, clock, run_id, scope, interrupted, trace, top3, chosen,
                   rejected, approved, slug, materialized, storage, output, invocationVars>>

\* the tool calls an agent has made when its stage is cut short: crew.kickoff()
\* of _stage_builder may have written any first part of what it would write
CallsBefore(p) ==
    IF p = "kickoff"
    THEN UNION {{SubSeq(c, 1, n) : n \in 0..Len(c)} : c \in BuilderCalls(slug)}
    ELSE {<<>>}

\* the calls the trace gains when the agent call at p is cut short
CutShort(p, calls) ==
    (IF p = "kickoff" THEN <<>> ELSE <<p>>) \o Repeat("FileWriterTool", Len(calls))

\* the Agent Executor of the stage at pc raises, after the tool calls calls
AgentFails(calls) ==
    /\ pc \in AgentCalls
    /\ calls \in CallsBefore(pc)
    /\ output' = WriteAll(output, calls)
    /\ trace' = trace \o CutShort(pc, calls)
    /\ Raise(Exc("RuntimeError", "agent failed"), trace')
    /\ UNCHANGED <<exitCode, ledger, clock, run_id, scope, interrupted, top3, chosen,
                   rejected, approved, slug, materialized, storage, invocationVars>>

\* the operator's interrupt reaches the process before the statement at pc,
\* or (during) inside the agent call at pc after the tool calls calls:
\* KeyboardInterrupt is raised there
Interrupt(during, calls) ==
    /\ pc \in Interruptible
    /\ during => pc \in AgentCalls
    /\ calls \in (IF during THEN CallsBefore(pc) ELSE {<<>>})
    /\ output' = WriteAll(output, calls)
    /\ trace' = IF during THEN trace \o CutShort(pc, calls) ELSE trace
    /\ interrupted' = TRUE
    /\ Raise(Exc("KeyboardInterrupt", ""), trace')
    /\ UNCHANGED <<exitCode, ledger, clock, run_id, scope, top3, chosen, rejected,
                   approved, slug, materialized, storage, invocationVars>>

\* an except clause of _run_pipeline takes the exception in flight: control
\* is in that clause (exc stays the exception that "as exc" names)
Catch ==
    /\ pc = "raising"
    /\ Handler(exc.type) # "none"
    /\ pc' = "except " \o Handler(exc.type)
    /\ scope' = "except"
    /\ UNCHANGED <<exc, failure, exitCode, ledger, clock, run_id, interrupted, trace, top3, chosen,
                   rejected, approved, slug, materialized, storage, output, invocationVars>>

\* lines 239-240: logger.info("Interrupted by user"),
\* finish_run(run_id, status="error", error="KeyboardInterrupt")
ExceptKeyboardInterrupt ==
    /\ pc = "except KeyboardInterrupt"
    /\ ledger' = FinishRun(ledger, run_id, "error", <<"KeyboardInterrupt">>, clock)
    /\ clock' = clock + 1
    /\ trace' = Append(trace, "finish_run")
    /\ pc' = "sys.exit Interrupted"
    /\ UNCHANGED <<exc, failure, exitCode, run_id, scope, interrupted, top3, chosen, rejected,
                   approved, slug, materialized, storage, output, invocationVars>>

\* lines 243-244: logger.exception(...), finish_run(..., error=str(exc))
ExceptException ==
    /\ pc = "except Exception"
    /\ ledger' = FinishRun(ledger, run_id, "error", <<exc.msg>>, clock)
    /\ clock' = clock + 1
    /\ trace' = Append(trace, "finish_run")
    /\ pc' = "sys.exit Pipeline error"
    /\ UNCHANGED <<exc, failure, exitCode, run_id, scope, interrupted, top3, chosen, rejected,
                   approved, slug, materialized, storage, output, invocationVars>>

\* no except clause takes the exception: the interpreter ends the process,
\* with status 1 for SystemExit with a message and for a traceback, and as
\* killed by SIGINT (130 to a shell) for KeyboardInterrupt
Propagate ==
    /\ pc = "raising"
    /\ Handler(exc.type) = "none"
    /\ Exit(IF exc.type = "KeyboardInterrupt" THEN 130 ELSE 1)
    /\ UNCHANGED <<exc, failure, ledger, clock, run_id, scope, interrupted, trace, top3, chosen,
                   rejected, approved, slug, materialized, storage, output, invocationVars>>

\* _recover() up to the call of git_init: project_dir = dirs[-1], the path
\* output/<slug>.  iterdir raises when output is no directory.
Recover ==
    /\ pc = "_recover"
    /\ trace' = Append(trace, "_recover")
    /\ IF IsFile(output, OutputDir)
       THEN /\ Raise(Exc("NotADirectoryError",
                         JoinText(OsError("ENOTDIR", OUTPUT_DIR).text)), trace')
            /\ slug' = slug
       ELSE IF OutputDirs(output) = {}
       THEN /\ Raise(Exc("SystemExit",
                         "No directories found in output/. Run the full pipeline first."),
                     trace')
            /\ slug' = slug
       ELSE /\ Goto("recover git_init")
            /\ slug' = LastDir(output)[Len(LastDir(output))]
    /\ UNCHANGED <<exitCode, ledger, clock, run_id, scope, interrupted, top3, chosen,
                   rejected, approved, materialized, storage, output, invocationVars>>

\* print(f"Git repo initialised at {project_dir}")
RecoverPrintError(s, e) ==
    PrintError(<<"G", "i", "t", " ", "r", "e", "p", "o", " ", "i", "n", "i", "t", "i", "a",
                 "l", "i", "s", "e", "d", " ", "a", "t", " ">> \o PathStr(ProjectDir(s)), e)

\* line 255: git_init(project_dir), which leaves g.fs or raises g.exc
RecoverGitInit(g) ==
    /\ pc = "recover git_init"
    /\ g \in GitInitOutcomes(output, FoundAt(output, ProjectDir(slug)))
    /\ trace' = Append(trace, "git_init")
    /\ output' = g.fs
    /\ RaiseOrGoto(g.exc, trace', "recover print")
    /\ UNCHANGED <<exitCode, ledger, clock, run_id, scope, interrupted, top3, chosen,
                   rejected, approved, slug, materialized, storage, invocationVars>>

\* line 256: the print, then _recover and main return
RecoverPrint ==
    /\ pc = "recover print"
    /\ RaiseOrExit(RecoverPrintError(slug, errors), trace)
    /\ UNCHANGED <<ledger, clock, run_id, scope, interrupted, trace, top3, chosen, rejected,
                   approved, slug, materialized, storage, output, invocationVars>>

\* output/ after a Construction agent wrote one file under a slug of its own
PriorOutput == WriteAll(NoOutput, <<Call(OtherSlug, Readme, <<"y", "o">>)>>)

\* What an earlier full run leaves behind when its Construction agent wrote
\* under a slug of its own: the run recorded as success, the artifact slots
\* written, a project directory that git_init never visited.
PipelineAfterRun ==
    /\ pc = "idle"
    /\ mode = "none"
    /\ exc = NoExc
    /\ exitCode = -1
    /\ ledger = FinishRun(StartRun(<<>>, Null, 1), 1, "success", Null, 2)
    /\ clock = 3
    /\ run_id = 0
    /\ scope = "none"
    /\ interrupted = FALSE
    /\ trace = <<>>
    /\ top3 = None
    /\ chosen = None
    /\ rejected = 0
    /\ approved = ""
    /\ slug = <<>>
    /\ materialized = ""
    /\ failure = NoFailure
    /\ before = [mode |-> "none", ledger |-> <<>>, output |-> NoOutput]
    /\ storage = [f \in Slots |->
                    IF f = "chosen_idea.json"
                    THEN File(JsonDumps(ParseJson(IdeaText("1", TitleA), 1).val))
                    ELSE IF f = "builder_output.txt" THEN File(FencedManifest)
                    ELSE Written]
    /\ output = PriorOutput
    /\ invocations = 0
    /\ errors = "strict"

\* main() is called from the top level of the script: one frame is in use
Init == ExtractorIdle /\ frames = 1 /\ AdaptersIdle /\ (PipelineIdle \/ PipelineAfterRun)

Next ==
    \/ \E m \in Modes, logs \in BOOLEAN, e \in StdoutErrors : Main(m, logs, e)
    \/ \E key \in BOOLEAN : CheckApiKey(key)
    \/ \E config \in ConfigWorlds : LoadConfig(config)
    \/ \E topic \in Topics : DoStartRun(topic)
    \/ EnterTry
    \/ \E t \in TrendTexts : StageScout(t)
    \/ ListTrends
    \/ \E t \in CriticTexts : StageCritic(t)
    \/ ReadCritic
    \/ ShowIdeas
    \/ \E inp \in ChoiceInputs : InputChoice(inp)
    \/ StageArchitect
    \/ ShowDesign
    \/ \E inp \in ApprovalInputs : InputApproval(inp)
    \/ EndOfInput
    \/ RejectedFinishRun
    \/ SysExit
    \/ \E s \in SlugifyOutcomes : StageBuilder(s)
    \/ \E calls \in BuilderCalls(slug) : Kickoff(calls)
    \/ TestProjectDir
    \/ \E g \in GitInitOutcomes(output, FoundAt(output, ProjectDir(slug))) : StageBuilderGitInit(g)
    \/ LogWarning
    \/ PrintComplete
    \/ FinishSuccess
    \/ LeaveTry
    \/ Return
    \/ \E calls \in CallsBefore(pc) : AgentFails(calls)
    \/ \E during \in BOOLEAN : \E calls \in CallsBefore(pc) : Interrupt(during, calls)
    \/ Catch
    \/ ExceptKeyboardInterrupt
    \/ ExceptException
    \/ Propagate
    \/ Recover
    \/ \E g \in GitInitOutcomes(output, FoundAt(output, ProjectDir(slug))) : RecoverGitInit(g)
    \/ RecoverPrint

Spec == Init /\ [][Next]_vars

\* ------------------------------------------------------------------------
\* Source adapters (src/tools/*_scraper.py).  A str literal of the source
\* that no operation takes apart (a key, a source name, a message) is written
\* as one element.
\* ------------------------------------------------------------------------
\* what an expression evaluates to: the exception it raises (NoExc for none)
\* and its value
Value(v) == [exc |-> NoExc, val |-> v, str |-> <<>>]

\* str is str(exc), the characters of the message
Throws(type, msg) == [exc |-> Exc(type, msg), val |-> None, str |-> Lit(msg)]

RECURSIVE DumpFlat(_)
RECURSIVE DumpFlatItems(_, _)

\* the items j.. of a list or dict, separated by ", "
DumpFlatItems(v, j) ==
    IF j > Len(v.e) THEN <<>>
    ELSE (IF j > 1 THEN <<",", " ">> ELSE <<>>)
         \o (IF v.k = "dict" THEN <<"\"">> \o EscapeStr(v.n[j]) \o <<"\"", ":", " ">> ELSE <<>>)
         \o DumpFlat(v.e[j])
         \o DumpFlatItems(v, j + 1)

\* json.dumps(obj): the default separators, no indentation
DumpFlat(v) ==
    CASE v.k = "None" -> <<"n", "u", "l", "l">>
      [] v.k = "bool" -> IF v.i = 1 THEN <<"t", "r", "u", "e">>
                         ELSE <<"f", "a", "l", "s", "e">>
      [] v.k = "int" -> IntText(v.i)
      [] v.k = "float" -> FloatText(v)
      [] v.k = "str" -> <<"\"">> \o EscapeStr(v.s) \o <<"\"">>
      [] v.k = "list" -> <<"[">> \o DumpFlatItems(v, 1) \o <<"]">>
      [] v.k = "dict" -> <<"{">> \o DumpFlatItems(v, 1) \o <<"}">>

\* the position of the last "\n" of s before position pos, 0 when none
LastNewline(s, pos) ==
    IF \E j \in 1..(pos - 1) : s[j] = "\n"
    THEN CHOOSE j \in 1..(pos - 1) : s[j] = "\n" /\ \A h \in (j + 1)..(pos - 1) : s[h] # "\n"
    ELSE 0

\* str(JSONDecodeError(msg, s, pos - 1)): the message, then line and column
\* of position pos; a backslash of the message is an element of its own
DecodeErrorChars(msg, s, pos) ==
    msg \o <<": line "
              \o NatStr(Cardinality({j \in 1..(pos - 1) : s[j] = "\n"}) + 1)
              \o " column " \o NatStr(pos - LastNewline(s, pos))
              \o " (char " \o NatStr(pos - 1) \o ")">>

DecodeErrorMsg(msg, s, pos) == JoinText(DecodeErrorChars(msg, s, pos))

\* raise JSONDecodeError(msg, s, pos - 1)
ThrowsDecodeError(msg, s, pos) ==
    [exc |-> Exc("JSONDecodeError", DecodeErrorMsg(msg, s, pos)), val |-> None,
     str |-> DecodeErrorChars(msg, s, pos)]

\* U+FEFF, which json.loads refuses at the start of a str
BOM == UName(65279)

\* json.loads(s) of the str s, called with depth frames in use (resp.json()
\* hands it the decoded text of the body): the test for a byte order mark,
\* then loads and decode take a frame each, raw_decode after the leading
\* whitespace, and nothing but whitespace after the value
JsonLoads(s, depth) ==
    LET Failed(r) ==
            IF r.err = "RecursionError" THEN Throws(r.err, r.msg[1])
            ELSE ThrowsDecodeError(r.msg, s, r.end)
        Ended(r, end) ==
            IF end # Len(s) + 1
            THEN Failed(DecodeError(<<"Extra data">>, end, RecursionLimit - depth - 2))
            ELSE Value(r.val)
        Decoded(r) == IF r.ok THEN Ended(r, SkipWs(s, r.end)) ELSE Failed(r)
    IN  IF At(s, 1) = BOM
        THEN ThrowsDecodeError(<<"Unexpected UTF-8 BOM (decode using utf-8-sig)">>, s, 1)
        ELSE Decoded(RawDecode(s, SkipWs(s, 1), depth + 2))

\* v.get(key, default)
PyGet(v, key, default) ==
    IF v.k = "dict"
    THEN Value(IF HasKey(v, key) THEN DictGet(v, key) ELSE default)
    ELSE Throws("AttributeError", "'" \o TypeName(v) \o "' object has no attribute 'get'")

\* v[key] for a key that is a str literal
PyItem(v, key) ==
    IF v.k # "dict" THEN Throws("TypeError", NotSubscriptable(v))
    ELSE IF HasKey(v, key) THEN Value(DictGet(v, key))
    ELSE Throws("KeyError", "'" \o JoinText(key) \o "'")

\* the items a for loop over v visits
PyIter(v) ==
    CASE v.k = "list" -> Value(v)
      [] v.k = "dict" -> Value(PyList([j \in 1..Len(v.n) |-> PyStr(v.n[j])]))
      [] v.k = "str" -> Value(PyList([j \in 1..Len(v.s) |-> PyStr(<<v.s[j]>>)]))
      [] OTHER -> Throws("TypeError", "'" \o TypeName(v) \o "' object is not iterable")

\* [F(x) for x in es], given rs = <<F(es[1]), ..., F(es[n])>>: the exception of
\* the first x for which F raises, else the list of the values
Comprehension(rs) ==
    IF \E j \in 1..Len(rs) : rs[j].exc # NoExc
    THEN rs[CHOOSE j \in 1..Len(rs) :
              /\ rs[j].exc # NoExc
              /\ \A h \in 1..(j - 1) : rs[h].exc = NoExc]
    ELSE Value(PyList([j \in 1..Len(rs) |-> rs[j].val]))

\* s[:n]
Take(s, n) == SubSeq(s, 1, IF Len(s) < n THEN Len(s) ELSE n)

\* [{"error": str(exc), "source": source}]
ErrorMarker(msg, source) ==
    PyList(<<PyDict(<<Lit("error"), Lit("source")>>, <<PyStr(msg), PyStr(Lit(source))>>)>>)

\* what _run returns, with the external calls it attempted
Ran(t, calls) == [text |-> t, calls |-> calls]

\* the except clause that ends a _run: the marker for a raised exception,
\* else the results
ResultsOrMarker(r, source, calls) ==
    IF r.exc # NoExc
    THEN Ran(DumpFlat(ErrorMarker(r.str, source)), calls)
    ELSE Ran(DumpFlat(r.val), calls)

\* an HTTP exchange: httpx.get / httpx.post raising (transport), then
\* resp.raise_for_status() raising (status), else the body of the response
Transport(msg) == [transport |-> msg, status |-> "", body |-> <<>>]

Status(msg) == [transport |-> "", status |-> msg, body |-> <<>>]

Body(t) == [transport |-> "", status |-> "", body |-> t]

\* the exception of the exchange, NoExc when a response passed raise_for_status
HttpError(w) ==
    IF w.transport # "" THEN Exc("ConnectError", w.transport)
    ELSE IF w.status # "" THEN Exc("HTTPStatusError", w.status)
    ELSE NoExc

\* ---- hn_scraper.py
\* one element of results, for the hit h
HNRecord(h) ==
    IF h.k # "dict" THEN PyGet(h, Lit("title"), None)
    ELSE Value(PyDict(
             <<Lit("source"), Lit("title"), Lit("url"), Lit("score"), Lit("comments")>>,
             <<PyStr(Lit("hackernews")),
               PyGet(h, Lit("title"), PyStr(<<>>)).val,
               PyGet(h, Lit("url"), PyStr(<<>>)).val,
               PyGet(h, Lit("points"), PyInt(0)).val,
               PyGet(h, Lit("num_comments"), PyInt(0)).val>>))

\* the try body of HackerNewsTool._run
HackerNewsResults(w) ==
    IF HttpError(w) # NoExc THEN Throws(HttpError(w).type, HttpError(w).msg)
    ELSE LET doc == JsonLoads(w.body, frames + 2)
         IN  IF doc.exc # NoExc THEN doc
             ELSE LET hits == PyGet(doc.val, Lit("hits"), PyList(<<>>))
                  IN  IF hits.exc # NoExc THEN hits
                      ELSE LET it == PyIter(hits.val)
                           IN  IF it.exc # NoExc THEN it
                               ELSE Comprehension([j \in 1..Len(it.val.e) |-> HNRecord(it.val.e[j])])

\* HackerNewsTool._run
HackerNewsRun(w) ==
    ResultsOrMarker(HackerNewsResults(w), "hackernews", <<"httpx.get">>)

\* ---- github_scraper.py
\* An article.Box-row of the page as the selectors see it: the h2 a tag, the
\* p tag and the stargazers link, each present or not, with the text nodes
\* below it in document order.
NoTag == [present |-> FALSE, strings |-> <<>>, href |-> Null]

Tag(strings) == [present |-> TRUE, strings |-> strings, href |-> Null]

Link(strings, href) == [present |-> TRUE, strings |-> strings, href |-> <<href>>]

Article(name_tag, desc_tag, stars_tag) ==
    [name_tag |-> name_tag, desc_tag |-> desc_tag, stars_tag |-> stars_tag]

RECURSIVE Remove(_, _)
\* s.replace(c, "")
Remove(s, c) ==
    IF s = <<>> THEN <<>>
    ELSE (IF Head(s) = c THEN <<>> ELSE <<Head(s)>>) \o Remove(Tail(s), c)

RECURSIVE JoinStripped(_)
\* "".join(s.strip() for s in strings): a node of whitespace adds nothing
JoinStripped(strings) ==
    IF strings = <<>> THEN <<>>
    ELSE Strip(Head(strings)) \o JoinStripped(Tail(strings))

\* tag.get_text(strip=True): every text node below the tag is stripped, the
\* empty ones are left out, and the rest is joined with no separator
GetText(tag) == JoinStripped(tag.strings)

\* the dict appended for repo; repo has a name tag
GHRecord(repo) ==
    IF repo.name_tag.href = Null THEN Throws("KeyError", "'href'")
    ELSE Value(PyDict(
             <<Lit("source"), Lit("title"), Lit("description"), Lit("stars"), Lit("url")>>,
             <<PyStr(Lit("github_trending")),
               PyStr(Remove(Remove(GetText(repo.name_tag), "\n"), " ")),
               PyStr(IF repo.desc_tag.present THEN GetText(repo.desc_tag) ELSE <<>>),
               PyStr(IF repo.stars_tag.present THEN GetText(repo.stars_tag) ELSE Lit("0")),
               PyStr(Lit("https://github.com") \o repo.name_tag.href[1])>>))

\* the repos the loop does not skip:  if not name_tag: continue
Named(repos) == SelectSeq(repos, LAMBDA r : r.name_tag.present)

\* the try body of GitHubTrendingTool._run, w.repos what soup.select found
GitHubResults(w) ==
    IF HttpError(w.http) # NoExc THEN Throws(HttpError(w.http).type, HttpError(w.http).msg)
    ELSE Comprehension([j \in 1..Len(Named(Take(w.repos, 20))) |-> GHRecord(Named(Take(w.repos, 20))[j])])

\* GitHubTrendingTool._run
GitHubRun(w) ==
    ResultsOrMarker(GitHubResults(w), "github_trending", <<"httpx.get">>)

\* ---- producthunt_scraper.py
\* t["node"]["name"]
TopicName(t) ==
    LET node == PyItem(t, Lit("node"))
    IN  IF node.exc # NoExc THEN node ELSE PyItem(node.val, Lit("name"))

\* [t["node"]["name"] for t in node.get("topics", {}).get("edges", [])]
PHTopics(node) ==
    LET topics == PyGet(node, Lit("topics"), PyDict(<<>>, <<>>))
    IN  IF topics.exc # NoExc THEN topics
        ELSE LET edges == PyGet(topics.val, Lit("edges"), PyList(<<>>))
             IN  IF edges.exc # NoExc THEN edges
                 ELSE LET it == PyIter(edges.val)
                      IN  IF it.exc # NoExc THEN it
                          ELSE Comprehension([j \in 1..Len(it.val.e) |-> TopicName(it.val.e[j])])

\* the dict appended for edge
PHRecord(edge) ==
    LET node == PyItem(edge, Lit("node"))
    IN  IF node.exc # NoExc THEN node
        ELSE IF PHTopics(node.val).exc # NoExc THEN PHTopics(node.val)
        ELSE IF PyItem(node.val, Lit("name")).exc # NoExc THEN PyItem(node.val, Lit("name"))
        ELSE Value(PyDict(
                 <<Lit("source"), Lit("title"), Lit("tagline"), Lit("url"), Lit("votes"),
                   Lit("topics")>>,
                 <<PyStr(Lit("producthunt")),
                   PyItem(node.val, Lit("name")).val,
                   PyGet(node.val, Lit("tagline"), PyStr(<<>>)).val,
                   PyGet(node.val, Lit("url"), PyStr(<<>>)).val,
                   PyGet(node.val, Lit("votesCount"), PyInt(0)).val,
                   PHTopics(node.val).val>>))

\* resp.json().get("data", {}).get("posts", {}).get("edges", [])
PHEdges(doc) ==
    LET data == PyGet(doc, Lit("data"), PyDict(<<>>, <<>>))
    IN  IF data.exc # NoExc THEN data
        ELSE LET posts == PyGet(data.val, Lit("posts"), PyDict(<<>>, <<>>))
             IN  IF posts.exc # NoExc THEN posts
                 ELSE PyGet(posts.val, Lit("edges"), PyList(<<>>))

\* the try body of ProductHuntTool._run
ProductHuntResults(w) ==
    IF HttpError(w) # NoExc THEN Throws(HttpError(w).type, HttpError(w).msg)
    ELSE LET doc == JsonLoads(w.body, frames + 2)
         IN  IF doc.exc # NoExc THEN doc
             ELSE LET edges == PHEdges(doc.val)
                  IN  IF edges.exc # NoExc THEN edges
                      ELSE LET it == PyIter(edges.val)
                           IN  IF it.exc # NoExc THEN it
                               ELSE Comprehension([j \in 1..Len(it.val.e) |-> PHRecord(it.val.e[j])])

\* ProductHuntTool._run under the environment e
ProductHuntRun(e, w) ==
    IF NotSet(e["PRODUCTHUNT_API_KEY"])
    THEN Ran(DumpFlat(ErrorMarker(Lit("PRODUCTHUNT_API_KEY not set"), "producthunt")), <<>>)
    ELSE ResultsOrMarker(ProductHuntResults(w), "producthunt", <<"httpx.post">>)

\* ---- reddit_scraper.py
\* a post of reddit.subreddit(sub).hot()
Post(title, url, score, num_comments) ==
    [title |-> title, url |-> url, score |-> score, num_comments |-> num_comments]

\* what iterating reddit.subreddit(sub).hot(limit) does: it yields posts and
\* then ends, or raises msg after them
Hot(posts, msg) == [posts |-> posts, raises |-> msg]

\* the dict appended for a post of r/sub
RedditRecord(sub, post) ==
    PyDict(<<Lit("source"), Lit("title"), Lit("url"), Lit("score"), Lit("comments")>>,
           <<PyStr(Lit("reddit/r/") \o sub), PyStr(post.title), PyStr(post.url),
             PyInt(post.score), PyInt(post.num_comments)>>)

RECURSIVE RedditLoop(_, _, _)
\* for sub in subreddits.split(","): the posts appended from the j-th on; a
\* subreddit that raises keeps the posts it yielded and the loop goes on
RedditLoop(names, hots, j) ==
    IF j > Len(names) THEN <<>>
    ELSE [h \in 1..Len(hots[j].posts) |-> RedditRecord(Strip(names[j]), hots[j].posts[h])]
         \o RedditLoop(names, hots, j + 1)

\* the external calls of the loop
HotCalls(names) == [j \in 1..Len(names) |-> "subreddit.hot"]

\* RedditTool._run under the environment e; w.import_error and w.praw are the
\* messages of a failing  import praw  and  praw.Reddit(...)
RedditRun(e, subreddits, w) ==
    IF NotSet(e["REDDIT_CLIENT_ID"]) \/ NotSet(e["REDDIT_CLIENT_SECRET"])
    THEN Ran(DumpFlat(ErrorMarker(Lit("REDDIT_CLIENT_ID/SECRET not set"), "reddit")), <<>>)
    ELSE IF w.import_error # ""
    THEN Ran(DumpFlat(ErrorMarker(Lit(w.import_error), "reddit")), <<>>)
    ELSE IF w.praw # ""
    THEN Ran(DumpFlat(ErrorMarker(Lit(w.praw), "reddit")), <<"praw.Reddit">>)
    ELSE Ran(DumpFlat(PyList(RedditLoop(Split(subreddits, ","), w.hot, 1))),
             <<"praw.Reddit">> \o HotCalls(Split(subreddits, ",")))

\* ---- twitter_scraper.py
Tweet(rawContent, url, likeCount, retweetCount) ==
    [rawContent |-> rawContent, url |-> url, likeCount |-> likeCount,
     retweetCount |-> retweetCount]

TweetRecord(t) ==
    PyDict(<<Lit("source"), Lit("title"), Lit("url"), Lit("score"), Lit("retweets")>>,
           <<PyStr(Lit("twitter")), PyStr(Take(t.rawContent, 280)), PyStr(t.url),
             PyInt(t.likeCount), PyInt(t.retweetCount)>>)

\* _fetch_via_module: w.kind is "ImportError" when snscrape cannot be
\* imported, "error" when the scraper raises w.msg, else "ok" with the tweets
FetchViaModule(limit, w) ==
    IF w.kind = "ImportError" THEN Throws("ImportError", "No module named 'snscrape'")
    ELSE IF w.kind = "error" THEN Throws("ScraperException", w.msg)
    ELSE Value(PyList([j \in 1..Len(Take(w.tweets, limit)) |-> TweetRecord(w.tweets[j])]))

\* data.get("content", "")[:280]: the slice of a str or a list; a dict hashes
\* the slice it is given as a key, any other value has no __getitem__
Content(data) ==
    LET c == PyGet(data, Lit("content"), PyStr(<<>>))
    IN  IF c.exc # NoExc THEN c
        ELSE IF c.val.k = "str" THEN Value(PyStr(Take(c.val.s, 280)))
        ELSE IF c.val.k = "list" THEN Value(PyList(Take(c.val.e, 280)))
        ELSE IF c.val.k = "dict" THEN Throws("TypeError", "unhashable type: 'slice'")
        ELSE Throws("TypeError", "'" \o TypeName(c.val) \o "' object is not subscriptable")

\* the dict appended for a line of the output, or the exception that skips it
LineRecord(line) ==
    LET data == JsonLoads(line, frames + 2)
    IN  IF data.exc # NoExc THEN data
        ELSE IF Content(data.val).exc # NoExc THEN Content(data.val)
        ELSE Value(PyDict(
                 <<Lit("source"), Lit("title"), Lit("url"), Lit("score"), Lit("retweets")>>,
                 <<PyStr(Lit("twitter")),
                   Content(data.val).val,
                   PyGet(data.val, Lit("url"), PyStr(<<>>)).val,
                   PyGet(data.val, Lit("likeCount"), PyInt(0)).val,
                   PyGet(data.val, Lit("retweetCount"), PyInt(0)).val>>))

\* the lines the loop keeps:  except Exception: continue
Parsed(lines) == SelectSeq(lines, LAMBDA l : LineRecord(l).exc = NoExc)

\* _fetch_via_subprocess: subprocess.run raises w.raises, or the process ends
\* with w.returncode having printed the lines w.stdout
FetchViaSubprocess(w) ==
    IF w.raises # "" THEN Throws("SubprocessError", w.raises)
    ELSE Value(PyList([j \in 1..Len(Parsed(w.stdout)) |-> LineRecord(Parsed(w.stdout)[j]).val]))

\* TwitterTool._run
TwitterRun(limit, w) ==
    IF FetchViaModule(limit, w.module).exc = NoExc
    THEN Ran(DumpFlat(FetchViaModule(limit, w.module).val), <<"snscrape">>)
    ELSE ResultsOrMarker(FetchViaSubprocess(w.subprocess), "twitter",
                         <<"snscrape", "subprocess.run">>)

\* ---- what the outside world may answer
TimedOut == "timed out"

Unauthorized == "401 Unauthorized"

NotJson == <<"<", "h", ">">>

\* bodies that fail inside an array, an object and a string
BrokenJson ==
    {<<"[", "1", ",", "]">>,
     <<"{", "\"", "a", "\"", "}">>,
     <<"\n", "\"", "a", "\\", "x", "\"">>}

HttpWorlds(bodies) == {Transport(TimedOut), Status(Unauthorized)} \cup {Body(b) : b \in bodies}

Dict1(key, v) == PyDict(<<Lit(key)>>, <<v>>)

HNHit ==
    PyDict(<<Lit("title"), Lit("url"), Lit("points"), Lit("num_comments")>>,
           <<PyStr(TitleB), PyStr(<<"u">>), PyInt(5), PyInt(2)>>)

HNBodies ==
    {DumpFlat(Dict1("hits", PyList(<<HNHit>>))),
     DumpFlat(Dict1("hits", PyList(<<HNHit, PyDict(<<>>, <<>>)>>))),
     DumpFlat(Dict1("hits", PyList(<<>>))),
     DumpFlat(PyDict(<<>>, <<>>)) \o <<"\n">>,
     DumpFlat(PyList(<<>>)),
     DumpFlat(Dict1("hits", PyList(<<PyInt(1)>>))),
     DumpFlat(Dict1("hits", None)),
     DumpFlat(Dict1("hits", PyInt(7))),
     DumpFlat(PyDict(<<>>, <<>>)) \o <<" ", "x">>,
     NotJson,
     DeepArray}
        \cup BrokenJson

\* <a href="/o/r"> <span>o /</span> r </a>, a description, and a stargazers
\* link made of an icon's title and the number
GoodRepo ==
    Article(Link(<<<<"\n", " ">>, <<"o", " ", "/">>, <<"\n", " ", "r", " ">>>>,
                 <<"/", "o", "/", "r">>),
            Tag(<<<<" ", "d", " ", "x", "\n">>>>),
            Tag(<<<<" ">>, <<"s", "t", "a", "r", " ">>, <<"\n", "9", "\n">>>>))

BareRepo == Article(Link(<<<<"o", "/", "r">>>>, <<"/", "o", "/", "r">>), NoTag, NoTag)

NoNameRepo == Article(NoTag, Tag(<<<<"d">>>>), NoTag)

NoHrefRepo == Article(Tag(<<<<"o", "/", "r">>>>), NoTag, NoTag)

GHWorlds ==
    {[http |-> h, repos |-> <<>>] : h \in {Transport(TimedOut), Status(Unauthorized)}}
    \cup {[http |-> Body(<<>>), repos |-> r] :
             r \in {<<>>, <<GoodRepo>>, <<GoodRepo, BareRepo>>, <<NoNameRepo, GoodRepo>>,
                    <<NoNameRepo>>, <<GoodRepo, NoHrefRepo>>, <<NoHrefRepo>>}}

PHNode(topics) ==
    Dict1("node",
          PyDict(<<Lit("name"), Lit("tagline"), Lit("url"), Lit("votesCount"), Lit("topics")>>,
                 <<PyStr(TitleA), PyStr(<<"t">>), PyStr(<<"u">>), PyInt(3), topics>>))

PHDoc(edges) == Dict1("data", Dict1("posts", Dict1("edges", edges)))

PHBodies ==
    {DumpFlat(PHDoc(PyList(<<PHNode(Dict1("edges",
         PyList(<<Dict1("node", Dict1("name", PyStr(<<"a", "i">>)))>>)))>>))),
     DumpFlat(PHDoc(PyList(<<PHNode(PyDict(<<>>, <<>>))>>))),
     DumpFlat(PHDoc(PyList(<<PHNode(Dict1("edges", PyList(<<PyDict(<<>>, <<>>)>>)))>>))),
     DumpFlat(PHDoc(PyList(<<PHNode(None)>>))),
     DumpFlat(PHDoc(PyList(<<>>))),
     DumpFlat(PHDoc(PyList(<<PyDict(<<>>, <<>>)>>))),
     DumpFlat(PHDoc(PyList(<<Dict1("node", PyDict(<<>>, <<>>))>>))),
     DumpFlat(PHDoc(PyList(<<PyInt(1)>>))),
     DumpFlat(Dict1("data", None)),
     DumpFlat(PyDict(<<>>, <<>>)),
     NotJson}

\* the values an environment variable may have: unset, empty, set
EnvValues == {Unset, EnvValue(""), EnvValue("k")}

EnvNames == {"REDDIT_CLIENT_ID", "REDDIT_CLIENT_SECRET", "PRODUCTHUNT_API_KEY"}

APost == Post(TitleB, <<"u">>, 4, 1)

HotOutcomes ==
    {Hot(<<APost>>, ""), Hot(<<>>, ""), Hot(<<>>, "received 403 HTTP response"),
     Hot(<<APost>>, TimedOut)}

AllGood(n) == [j \in 1..n |-> Hot(<<APost>>, "")]

\* what praw may do for n subreddits: the import fails, the constructor
\* fails, or every subreddit has an outcome of its own
RedditWorlds(n) ==
    {[import_error |-> "No module named 'praw'", praw |-> "", hot |-> AllGood(n)],
     [import_error |-> "", praw |-> "Required configuration setting", hot |-> AllGood(n)]}
    \cup {[import_error |-> "", praw |-> "", hot |-> h] : h \in [1..n -> HotOutcomes]}

SubredditArgs == {<<"a">>, <<"a", ",", " ", "b">>}

ATweet == Tweet(TitleB, <<"u">>, 4, 1)

ModuleWorlds ==
    {[kind |-> "ImportError", msg |-> "", tweets |-> <<>>],
     [kind |-> "error", msg |-> "blocked", tweets |-> <<>>],
     [kind |-> "ok", msg |-> "", tweets |-> <<>>],
     [kind |-> "ok", msg |-> "", tweets |-> <<ATweet, ATweet>>]}

TweetLine(content) ==
    DumpFlat(PyDict(<<Lit("content"), Lit("url"), Lit("likeCount")>>,
                    <<content, PyStr(<<"u">>), PyInt(4)>>))

Process(returncode, stdout) == [raises |-> "", returncode |-> returncode, stdout |-> stdout]

SubprocessWorlds ==
    {[raises |-> "timed out after 30 seconds", returncode |-> 0, stdout |-> <<>>],
     Process(0, <<TweetLine(PyStr(TitleB))>>),
     Process(0, <<TweetLine(PyStr(TitleB)), NotJson>>),
     Process(0, <<TweetLine(None)>>),
     Process(0, <<DumpFlat(PyList(<<PyInt(1)>>))>>),
     Process(0, <<>>),
     Process(1, <<>>)}

Limits == {1, 2}

\* ---- the adapters on their own: each call of a tool is one step
NoEnv == [n \in EnvNames |-> Unset]

Inputs(e, args, w) == [env |-> e, args |-> args, fetch |-> w]

InitAdapters ==
    /\ AdaptersIdle
    /\ ExtractorIdle
    /\ frames \in CallerFrames
    /\ PipelineIdle

CallHackerNews ==
    \E w \in HttpWorlds(HNBodies) :
        /\ tool' = "HackerNewsTool"
        /\ world' = Inputs(NoEnv, <<>>, w)
        /\ ran' = HackerNewsRun(w)
        /\ UNCHANGED <<extractorVars, pipelineVars>>

CallGitHubTrending ==
    \E w \in GHWorlds :
        /\ tool' = "GitHubTrendingTool"
        /\ world' = Inputs(NoEnv, <<>>, w)
        /\ ran' = GitHubRun(w)
        /\ UNCHANGED <<extractorVars, pipelineVars>>

CallProductHunt ==
    \E key \in EnvValues, w \in HttpWorlds(PHBodies) :
        /\ tool' = "ProductHuntTool"
        /\ world' = Inputs([NoEnv EXCEPT !["PRODUCTHUNT_API_KEY"] = key], <<>>, w)
        /\ ran' = ProductHuntRun([NoEnv EXCEPT !["PRODUCTHUNT_API_KEY"] = key], w)
        /\ UNCHANGED <<extractorVars, pipelineVars>>

CallReddit ==
    \E id \in EnvValues, secret \in EnvValues, subreddits \in SubredditArgs :
        \E w \in RedditWorlds(Len(Split(subreddits, ","))) :
            LET e == [NoEnv EXCEPT !["REDDIT_CLIENT_ID"] = id,
                                   !["REDDIT_CLIENT_SECRET"] = secret]
            IN  /\ tool' = "RedditTool"
                /\ world' = Inputs(e, subreddits, w)
                /\ ran' = RedditRun(e, subreddits, w)
                /\ UNCHANGED <<extractorVars, pipelineVars>>

CallTwitter ==
    \E limit \in Limits, m \in ModuleWorlds, p \in SubprocessWorlds :
        /\ tool' = "TwitterTool"
        /\ world' = Inputs(NoEnv, limit, [module |-> m, subprocess |-> p])
        /\ ran' = TwitterRun(limit, [module |-> m, subprocess |-> p])
        /\ UNCHANGED <<extractorVars, pipelineVars>>

NextAdapters ==
    \/ CallHackerNews
    \/ CallGitHubTrending
    \/ CallProductHunt
    \/ CallReddit
    \/ CallTwitter

SpecAdapters == InitAdapters /\ [][NextAdapters]_vars

\* ------------------------------------------------------------------------
\* Properties of the extractor (checked under SpecExtract)
\* ------------------------------------------------------------------------
IsOpen(c) == c \in {"{", "["}

\* what the grammar of JSON reads at position i of t, however deep it nests
ValueAt(t, i) == ScanOnce(t, i, Len(t))

\* a well-formed JSON object or array starts at position i of t
ValidAt(t, i) == IsOpen(At(t, i)) /\ ValueAt(t, i).ok

HasValid(t) == \E i \in 1..Len(t) : ValidAt(t, i)

EarliestValid(t) ==
    CHOOSE i \in 1..Len(t) : ValidAt(t, i) /\ \A j \in 1..(i - 1) : ~ValidAt(t, j)

HasOpen(t) == \E i \in 1..Len(t) : IsOpen(t[i])

FirstOpen(t) ==
    CHOOSE i \in 1..Len(t) : IsOpen(t[i]) /\ \A j \in 1..(i - 1) : ~IsOpen(t[j])

\* C3: for a text that holds a well-formed JSON object or array, the extractor
\* returns the well-formed value whose opening bracket comes earliest in the
\* text, whichever bracket it is, and not a value nested inside it.
C3_EarliestValue ==
    (called # "none" /\ HasValid(text))
        => result = Returns(ValueAt(text, EarliestValid(text)).val)

\* C4: when the first opening bracket of the text fails to decode and a
\* well-formed value starts later, the extractor recovers and returns a
\* well-formed value that starts after the failed bracket: not None.
C4_RecoversFromFailedCandidate ==
    (/\ called # "none"
     /\ HasOpen(text)
     /\ ~ValidAt(text, FirstOpen(text))
     /\ HasValid(text))
        => (/\ result.raised = ""
            /\ \E j \in (FirstOpen(text) + 1)..Len(text) :
                   ValidAt(text, j) /\ result.val = ValueAt(text, j).val)

\* C5: for a text in which no well-formed JSON object or array starts anywhere
\* (the empty text, a text without brackets, brackets with invalid contents),
\* _parse_json and _parse_json_file return None and raise nothing.  A text of
\* RecursionLimit opening brackets holds no well-formed value either, and on
\* it the decoder raises RecursionError, which the except clause of
\* _parse_json does not name.
C5_NotFoundIsNone ==
    (called # "none" /\ ~HasValid(text)) => result = Returns(None)

\* ------------------------------------------------------------------------
\* Properties of the pipeline (checked under Spec)
\* ------------------------------------------------------------------------
Range(q) == {q[j] : j \in 1..Len(q)}

Count(q, x) == Cardinality({j \in 1..Len(q) : q[j] = x})

AbortedByUser == <<"Aborted by user after design review">>

\* the first exception of this invocation was raised when finish_run had
\* returned and nothing had been called since: the outcome of the run was
\* in the ledger already
RaisedAfterRecord == failure.at > 0 /\ trace[failure.at] = "finish_run"

\* C1: a full run in which the operator answered the Approval gate with n / no
\* has invoked neither the Construction stage nor the Project Writer, and it
\* ends with a non-zero exit status and its ledger entry in status error with
\* the "aborted by user" message.  Read with the interruption rule of the
\* specification: a run the operator interrupts before the abort is recorded
\* is an interrupted run and is left out here.
C1_RejectionAborts ==
    (mode = "run" /\ approved = "no" /\ pc = "exited"
        /\ (interrupted => RaisedAfterRecord)) =>
        /\ "_stage_builder" \notin Range(trace)
        /\ "FileWriterTool" \notin Range(trace)
        /\ exitCode # 0
        /\ ledger[run_id].status = "error"
        /\ ledger[run_id].error = AbortedByUser

CriticExits ==
    {Exc("SystemExit", "Critic produced no parseable output."),
     Exc("SystemExit", "Critic output missing 'top3' list.")}

\* C2: a full run that the Evaluation stage aborts (no parseable value in its
\* artifact, or no ranked list in the value) exits non-zero with its ledger
\* entry marked: status error, end timestamp set.
C2_CriticAbortMarksLedger ==
    (pc = "exited" /\ run_id # 0 /\ exc \in CriticExits) =>
        /\ exitCode # 0
        /\ ledger[run_id].status = "error"
        /\ ledger[run_id].finished_at # Null

\* the ranks of a list of ideas are exactly 1..N, each once
RanksExact(top) ==
    /\ top.k = "list"
    /\ \A j \in 1..Len(top.e) : HasKey(top.e[j], Rank) /\ DictGet(top.e[j], Rank).k = "int"
    /\ \A n \in 1..Len(top.e) :
           Cardinality({j \in 1..Len(top.e) : DictGet(top.e[j], Rank).i = n}) = 1

\* C6: every list _stage_critic hands to the Selection gate has the ranks
\* 1..N without gap or duplicate; the gate raises nothing, and the idea it
\* returns for an accepted input is the only one of its rank and is what the
\* Chosen Idea slot holds.
C6_SelectionByRank ==
    /\ pc \in {"_prompt_idea_choice", "input_choice"} => RanksExact(top3)
    /\ (pc = "raising" /\ "_prompt_idea_choice" \in Range(trace))
           => exc.type \in {"KeyboardInterrupt", "SystemExit"}
    /\ chosen # None =>
           /\ Cardinality({j \in 1..Len(top3.e) : DictGet(top3.e[j], Rank) = DictGet(chosen, Rank)}) = 1
           /\ storage["chosen_idea.json"] = File(JsonDumps(chosen))

\* str(exc) as the except clauses record it
Recorded(e) == <<IF e.type = "KeyboardInterrupt" THEN "KeyboardInterrupt" ELSE e.msg>>

\* C7: when a statement of a full run has raised an exception after start_run
\* returned, or the operator's interrupt has reached the run, the process
\* ends with a non-zero status and the run's ledger entry in status error,
\* its end set, with the exception's message (KeyboardInterrupt for the
\* interrupt); the failure is handled once, and nothing but that one
\* finish_run is called after it.
C7_FailureIsRecorded ==
    (mode = "run" /\ run_id # 0 /\ failure # NoFailure /\ pc = "exited") =>
        /\ exitCode # 0
        /\ ledger[run_id].status = "error"
        /\ ledger[run_id].finished_at # Null
        /\ ledger[run_id].error = Recorded(failure.exc)
        /\ SubSeq(trace, failure.at + 1, Len(trace)) = <<"finish_run">>

PathKey == <<"p", "a", "t", "h">>

ContentKey == <<"c", "o", "n", "t", "e", "n", "t">>

\* the Build Manifest embedded in a Construction artifact
Manifest(t) == ValueAt(t, EarliestValid(t)).val

\* C8: a recovery run over a captured Construction artifact calls no agent
\* and drives the Project Writer once per entry of the embedded manifest, so
\* that every entry's file exists under output/ with the entry's content.
\* Said of the recovery runs that end with exit status 0.
C8_RecoverReplaysManifest ==
    (mode = "recover" /\ pc = "exited" /\ exitCode = 0
        /\ storage["builder_output.txt"].exists) =>
        LET m == Manifest(storage["builder_output.txt"].text)
        IN  /\ Range(trace) \cap AgentStages = {}
            /\ Count(trace, "FileWriterTool") = Len(m.e)
            /\ \A j \in 1..Len(m.e) :
                   \E f \in DOMAIN output.files :
                       /\ Len(f) > Len(OutputDir)
                       /\ SubSeq(f, 1, Len(OutputDir)) = OutputDir
                       /\ SlashJoin(SubSeq(f, Len(OutputDir) + 2, Len(f)))
                              = DictGet(m.e[j], PathKey).s
                       /\ output.files[f] = DictGet(m.e[j], ContentKey).s

\* C10: the preview calls nothing but the Discovery stage: the ledger stays
\* as the invocation found it and no run id is obtained.
C10_PreviewTouchesNothing ==
    mode = "dry-run" =>
        /\ ledger = before.ledger
        /\ run_id = 0
        /\ Range(trace) \subseteq {"_stage_scout"}

\* C10 witness: a preview that ended, next to a ledger that holds a run
C10_Witness ==
    /\ mode = "dry-run"
    /\ pc = "exited"
    /\ trace = <<"_stage_scout">>
    /\ Len(ledger) > 0

\* C12: a full run whose Construction agent returned without leaving the
\* project directory is not failed: the warning is logged, git_init is not
\* called, and the run's ledger entry is success without error message.  Read
\* with the interruption rule of the specification: a run the operator
\* interrupts before its success is recorded is an interrupted run and is
\* left out here.
C12_MissingProjectDirIsSuccess ==
    (materialized = "no" /\ pc = "exited" /\ (interrupted => RaisedAfterRecord)) =>
        /\ "logger.warning" \in Range(trace)
        /\ "git_init" \notin Range(trace)
        /\ ledger[run_id].status = "success"
        /\ ledger[run_id].error = Null
        /\ ledger[run_id].finished_at # Null

\* the steps of a full run, in the order of the pipeline
Steps ==
    <<"_stage_scout", "_stage_critic", "_prompt_idea_choice", "_stage_architect",
      "_prompt_design_approval", "_stage_builder">>

\* the steps among the calls q, in the order they were made
StepsOf(q) == SelectSeq(q, LAMBDA x : x \in Range(Steps))

\* C13: the steps a full run has started are the first steps of the pipeline,
\* in its order and each once; Design is started only with an idea chosen and
\* written to its slot, Construction only after the answer yes at the
\* Approval gate.
C13_StepsInOrder ==
    mode = "run" =>
        /\ Len(StepsOf(trace)) <= Len(Steps)
        /\ StepsOf(trace) = SubSeq(Steps, 1, Len(StepsOf(trace)))
        /\ "_stage_architect" \in Range(trace) =>
               /\ chosen # None
               /\ storage["chosen_idea.json"] = File(JsonDumps(chosen))
        /\ "_stage_builder" \in Range(trace) => approved = "yes"

\* C13 witness: a full run that went through all six steps
C13_Witness ==
    /\ mode = "run"
    /\ pc = "exited"
    /\ StepsOf(trace) = Steps
    /\ exitCode = 0

\* start_run in this step: one entry more, running, not ended, with the next
\* id, which is the id the run keeps
LedgerAppends ==
    Len(ledger') > Len(ledger) =>
        /\ Len(ledger') = Len(ledger) + 1
        /\ ledger'[Len(ledger')] =
               [id |-> Len(ledger) + 1, started_at |-> clock, finished_at |-> Null,
                topic |-> ledger'[Len(ledger')].topic, status |-> "running", error |-> Null]
        /\ run_id' = Len(ledger) + 1

\* no entry is deleted, and an entry that changes in this step is the entry of
\* the run in progress going from running to success or error with its end set
LedgerMutatesOwnEntryOnce ==
    /\ Len(ledger') >= Len(ledger)
    /\ \A j \in 1..Len(ledger) :
           ledger'[j] # ledger[j] =>
               /\ j = run_id
               /\ ledger[j].status = "running"
               /\ ledger'[j].status \in {"success", "error"}
               /\ ledger'[j].finished_at # Null
               /\ ledger'[j] = [ledger[j] EXCEPT !.status = ledger'[j].status,
                                                 !.finished_at = ledger'[j].finished_at,
                                                 !.error = ledger'[j].error]

\* finish_run with any id, on the table as it is: an unknown id changes
\* nothing, a known one changes its own entry only
FinishRunTouchesOneEntry ==
    \A id \in 0..(Len(ledger) + 1) :
        LET after == FinishRun(ledger, id, "error", <<"x">>, clock)
        IN  /\ Len(after) = Len(ledger)
            /\ \A j \in 1..Len(ledger) : j # id => after[j] = ledger[j]
            /\ id \notin 1..Len(ledger) => after = ledger

\* the process has ended after start_run returned, its entry still running
ExitsLeavingRunning == pc' = "exited" /\ run_id' # 0 /\ ledger'[run_id'].status = "running"

\* C14: start_run appends a running entry with a fresh id; a full run changes
\* its own entry once, to success or error with the end timestamp set, and
\* no other entry; no entry is deleted; finish_run with an unknown id changes
\* nothing; and no process ends after start_run with its entry still running.
C14_LedgerLifecycle ==
    [][/\ LedgerAppends
       /\ LedgerMutatesOwnEntryOnce
       /\ FinishRunTouchesOneEntry
       /\ ~ExitsLeavingRunning]_vars

\* ------------------------------------------------------------------------
\* Properties of the source adapters (checked under SpecAdapters)
\* ------------------------------------------------------------------------
SourceName ==
    [t \in {"HackerNewsTool", "GitHubTrendingTool", "ProductHuntTool", "RedditTool",
            "TwitterTool"} |->
        CASE t = "HackerNewsTool" -> "hackernews"
          [] t = "GitHubTrendingTool" -> "github_trending"
          [] t = "ProductHuntTool" -> "producthunt"
          [] t = "RedditTool" -> "reddit"
          [] t = "TwitterTool" -> "twitter"]

\* a credential the called tool needs is absent from the environment
CredentialAbsent ==
    \/ tool = "ProductHuntTool" /\ NotSet(world.env["PRODUCTHUNT_API_KEY"])
    \/ tool = "RedditTool" /\ (\/ NotSet(world.env["REDDIT_CLIENT_ID"])
                              \/ NotSet(world.env["REDDIT_CLIENT_SECRET"]))

\* the fetch of the called tool failed: a credential is absent, the exchange
\* or a library call raised, or what came back could not be parsed.  For
\* Twitter the fetch has failed when the module and the subprocess both did.
FetchFailed ==
    \/ CredentialAbsent
    \/ tool = "HackerNewsTool" /\ HackerNewsResults(world.fetch).exc # NoExc
    \/ tool = "GitHubTrendingTool" /\ GitHubResults(world.fetch).exc # NoExc
    \/ tool = "ProductHuntTool" /\ ProductHuntResults(world.fetch).exc # NoExc
    \/ tool = "RedditTool" /\ (\/ world.fetch.import_error # ""
                              \/ world.fetch.praw # ""
                              \/ \E j \in DOMAIN world.fetch.hot :
                                     world.fetch.hot[j].raises # "")
    \/ tool = "TwitterTool"
           /\ FetchViaModule(world.args, world.fetch.module).exc # NoExc
           /\ (\/ world.fetch.subprocess.raises # ""
               \/ world.fetch.subprocess.returncode # 0
               \/ Parsed(world.fetch.subprocess.stdout) # world.fetch.subprocess.stdout)

\* v is [{"error": <a str>, "source": source}]
IsErrorMarker(v, source) ==
    /\ v.k = "list"
    /\ Len(v.e) = 1
    /\ v.e[1].k = "dict"
    /\ v.e[1].n = <<Lit("error"), Lit("source")>>
    /\ v.e[1].e[1].k = "str"
    /\ v.e[1].e[2] = PyStr(Lit(source))

\* C11: a source adapter whose fetch failed returns the JSON text of a
\* one-element list holding the error marker tagged with its source name,
\* and with a credential absent it returns it without an external call.
C11_AdapterFailureIsMarker ==
    (tool # "none" /\ FetchFailed) =>
        /\ JsonLoads(ran.text, frames).exc = NoExc
        /\ IsErrorMarker(JsonLoads(ran.text, frames).val, SourceName[tool])
        /\ CredentialAbsent => ran.calls = <<>>

====
